---- MODULE Spec2Model ----
(***************************************************************************)
(* Wallet authentication of gc-helia: the session token manager            *)
(* (src/app/lib/auth.ts), the connect and session route handlers, the      *)
(* middleware and the signature verifier, as state machines.               *)
(***************************************************************************)
EXTENDS Integers, Sequences, FiniteSets, TLC

VARIABLES
  now,          \* wall clock, in whole seconds (Math.floor(Date.now() / 1000))
  ticks,        \* number of clock advances so far (bounds the exploration)
  envSecret,    \* TRUE iff process.env.JWT_SECRET is configured
  nodeEnv,      \* process.env.NODE_ENV
  nextId,       \* number of crypto.randomBytes(16) draws so far
  tok,          \* the token string the caller currently holds / presents
  origin,       \* how tok came to be: the sessionData it was issued from, and when
  call,         \* the last session-token operation and what it returned
  cookie,       \* the client's wallet_session cookie
  resp,         \* the last HTTP exchange: request, response and what ran
  proof,        \* the connectionData handed to the verifier
  dateNow,      \* Date.now(), in milliseconds
  instances,    \* RateLimiter.instances: key -> bucket
  last,         \* the last RateLimiter call and what it did
  mark,         \* an observation window on one key: start, tokens then, grants since
  pc,           \* where each concurrent request to the limiter stands
  csrf,         \* the stored CSRF token and the last validateCsrfToken call
  client,       \* the browser: WalletProvider state, localStorage, cookie jar
  manager,      \* the BalanceManager singleton: cache, pendingRequests, fetches, calls
  delivery      \* one wallet callback result on its way from the popup to the page

vars == <<now, ticks, envSecret, nodeEnv, nextId, tok, origin, call, cookie, resp, proof,
          dateNow, instances, last, mark, pc, csrf, client, manager, delivery>>

(* What the actions of each part leave alone.                              *)
PageVars == <<manager, delivery>>
ClientVars == <<csrf, client, PageVars>>
RateVars == <<dateNow, instances, last, mark, pc, ClientVars>>
ServerVars == <<now, ticks, envSecret, nodeEnv, nextId, tok, origin, call, cookie, resp, proof>>
SessionVars == <<ServerVars, ClientVars>>
LimiterVars == <<dateNow, instances, last, mark, pc>>
CsrfFrame == <<ServerVars, LimiterVars, client, PageVars>>
WalletFrame == <<ServerVars, LimiterVars, csrf, PageVars>>
BalanceFrame == <<ServerVars, instances, last, mark, pc, csrf, client, delivery>>
CallbackFrame == <<ServerVars, LimiterVars, csrf, client, manager>>
AuthFrame == <<envSecret, nodeEnv, proof, RateVars>>
HttpFrame == <<envSecret, nodeEnv, tok, origin, call, proof, RateVars>>
VerifyFrame == <<now, ticks, envSecret, nodeEnv, nextId, tok, origin, call, cookie, RateVars>>

----------------------------------------------------------------------------
(* Bounds of the exploration.                                              *)
MaxTicks == 3
MaxIds == 3
MaxExpiries == 1
MaxRateTicks == 2

(* Clock advances: chosen so that a token issued at t0 is seen with        *)
(* 2000 s, 1800 s, 1799 s, 1000 s, 0 s and -1 s of lifetime remaining.     *)
Steps == {1, 200, 1000, 5200}

----------------------------------------------------------------------------
(* Values.                                                                 *)
NoVal == "<absent>"          \* an absent (undefined) string field
NoNum == 0 - 1                 \* an absent (undefined) numeric field
Falsy(s) == s \in {NoVal, ""}    \* JavaScript !s for a string or undefined

Addrs == {"addr1", "addr2"}
Nets == {0, 1}
Names == {"", "eternl"}

(* auth.ts:14 *)
JWT_EXPIRATION == 60 * 60 * 2

(* auth.ts:5-13: the signing key of the process, fixed at module load.     *)
getJwtSecret(env) == IF ~env THEN "random" ELSE "env"
JWT_SECRET == getJwtSecret(envSecret)

(* A token / cookie string, by what it decodes to: kind "jwt" is a compact *)
(* JWT with the claims below, signed with `key` under `alg`; kind "json"   *)
(* is a JSON session object (address, name, networkId, verified); kind     *)
(* "garbage" is any other non-empty string; kind "none" is no string.      *)
Token(address, networkId, name, jti, iat, nbf, exp, alg, key) ==
  [kind |-> "jwt", address |-> address, networkId |-> networkId, name |-> name,
   jti |-> jti, iat |-> iat, nbf |-> nbf, exp |-> exp, alg |-> alg, key |-> key,
   verified |-> FALSE]

NoToken ==
  [kind |-> "none", address |-> NoVal, networkId |-> NoNum, name |-> NoVal,
   jti |-> NoNum, iat |-> NoNum, nbf |-> NoNum, exp |-> NoNum, alg |-> "none",
   key |-> "none", verified |-> FALSE]

----------------------------------------------------------------------------
(* Session Token Manager, src/app/lib/auth.ts.                             *)

(* A variant of jwtVerify that still accepts a token at t = exp.           *)
jwtVerifyAtExpiry(token, secret, algorithms, t) ==
  /\ token.kind = "jwt"
  /\ token.alg \in algorithms
  /\ token.key = secret
  /\ (token.nbf # NoNum => token.nbf <= t)
  /\ (token.exp # NoNum => token.exp >= t)

(* jose's jwtVerify as called at auth.ts:54-56 and 91-93: the compact JWS  *)
(* must parse, its alg be among `algorithms`, its HMAC verify under        *)
(* `secret`, and the registered claims hold at time t: nbf <= t, exp > t.  *)
jwtVerify(token, secret, algorithms, t) ==
  /\ token.kind = "jwt"
  /\ token.alg \in algorithms
  /\ token.key = secret
  /\ (token.nbf # NoNum => token.nbf <= t)
  /\ (token.exp # NoNum => token.exp > t)

(* A variant of createSecureSessionToken without the default name.        *)
createSecureSessionTokenNoDefault(sessionData, t, id) ==
  Token(sessionData.address, sessionData.networkId, sessionData.name,
        id, t, t, t + JWT_EXPIRATION, "HS256", JWT_SECRET)

(* auth.ts:25-50. `id` is the value of crypto.randomBytes(16); setJti      *)
(* overrides the jti given in the payload object.                          *)
createSecureSessionToken(sessionData, t, id) ==
  Token(sessionData.address,
        sessionData.networkId,
        IF Falsy(sessionData.name) THEN "Unknown Wallet" ELSE sessionData.name,
        id, t, t, t + JWT_EXPIRATION, "HS256", JWT_SECRET)

(* auth.ts:52-72 *)
validateSession(token, t) ==
  IF ~jwtVerify(token, JWT_SECRET, {"HS256"}, t) THEN FALSE
  ELSE IF Falsy(token.address) \/ token.jti = NoNum THEN FALSE
  ELSE IF token.exp # NoNum /\ token.exp < t THEN FALSE
  ELSE TRUE

(* A variant of getSessionData that tells an expired session from a       *)
(* forged one in what it returns.                                          *)
getSessionDataTellsExpiry(token, jar, t) ==
  LET tk == IF token.kind = "none" THEN jar ELSE token IN
  IF tk.kind = "none" THEN NoToken
  ELSE IF tk.kind = "jwt" /\ tk.alg = "HS256" /\ tk.key = JWT_SECRET
          /\ tk.exp # NoNum /\ tk.exp <= t
    THEN [NoToken EXCEPT !.kind = "expired"]
  ELSE IF ~jwtVerify(tk, JWT_SECRET, {"HS256"}, t) THEN NoToken
  ELSE tk

(* auth.ts:74-105. A missing token argument is read from the cookie jar.   *)
(* The result is the payload (the token's claims) or NoToken for null.     *)
getSessionData(token, jar, t) ==
  LET tk == IF token.kind = "none" THEN jar ELSE token IN
  IF tk.kind = "none" THEN NoToken
  ELSE IF ~jwtVerify(tk, JWT_SECRET, {"HS256"}, t) THEN NoToken
  ELSE IF tk.exp # NoNum /\ tk.exp < t THEN NoToken
  ELSE tk

(* A variant of refreshSessionToken that hands back the token it was      *)
(* given instead of issuing a new one.                                     *)
refreshSessionTokenSame(token, jar, t, id) ==
  getSessionData(token, jar, t)

(* auth.ts:107-124 *)
refreshSessionToken(token, jar, t, id) ==
  LET sessionData == getSessionData(token, jar, t) IN
  IF sessionData = NoToken THEN NoToken
  ELSE createSecureSessionToken(
         [address |-> sessionData.address,
          networkId |-> sessionData.networkId,
          name |-> sessionData.name], t, id)

(* A variant of shouldRefreshToken that answers true at the threshold.    *)
shouldRefreshTokenInclusive(tokenPayload, t) ==
  IF tokenPayload.exp = NoNum THEN TRUE
  ELSE LET timeRemaining == tokenPayload.exp - t IN
       timeRemaining <= (JWT_EXPIRATION \div 4)

(* auth.ts:142-149 *)
shouldRefreshToken(tokenPayload, t) ==
  IF tokenPayload.exp = NoNum THEN TRUE
  ELSE LET timeRemaining == tokenPayload.exp - t IN
       timeRemaining < (JWT_EXPIRATION \div 4)

(* The session route's own check (unnamed/part_003:4-19): the secret is    *)
(* read from the environment at each call and no algorithm list is given,  *)
(* so jose accepts every HMAC algorithm.                                   *)
validateSessionToken(sessionToken, env, t) ==
  IF ~env THEN FALSE
  ELSE IF ~jwtVerify(sessionToken, "env", {"HS256", "HS384", "HS512"}, t) THEN FALSE
  ELSE ~Falsy(sessionToken.address) /\ sessionToken.exp # NoNum
       /\ sessionToken.exp > t

----------------------------------------------------------------------------
(* Signature verifier: values.  A byte string is written as its hex text,  *)
(* "" being the empty byte string; PNull is the CBOR null.                 *)
PNull == "<null>"

(* Buffer.from(h, 'hex'): decoding stops at the first non-hex character.   *)
HexBytes(h) ==
  CASE h = "6869" -> "6869"
    [] h = "6162" -> "6162"
    [] h = "deadbeef" -> "deadbeef"
    [] OTHER -> ""

(* buf.toString('utf8'): bytes that are no UTF-8 decode to U+FFFD.         *)
Utf8(b) ==
  CASE b = "" -> ""
    [] b = "6869" -> "hi"
    [] b = "6162" -> "ab"
    [] OTHER -> "<U+FFFD>"

(* Buffer.from(s): the UTF-8 encoding of a string.                         *)
Utf8Bytes(s) ==
  CASE s = "" -> ""
    [] s = "hi" -> "6869"
    [] s = "ab" -> "6162"
    [] OTHER -> "efbfbd"

(* /^[0-9a-fA-F]+$/.test(s) *)
IsHexText(s) == s \in {"ab", "6869", "6162", "deadbeef"}

(* blake2bHex(s, undefined, 28): the hex text of a 28-byte digest.         *)
blake2bHex(s) ==
  CASE s = "hi" -> "b2b0hi"
    [] s = "ab" -> "b2b0ab"
    [] OTHER -> "b2b0ff"

(* Ed25519: a signature by key k over bytes m verifies under pk exactly    *)
(* when pk = k and the bytes are m.                                        *)
Signature(k, m) == [by |-> k, over |-> m]
ed25519Verify(m, sig, pk) == sig.by = pk /\ sig.over = m

(* The COSE Sig_structure, as the tuple that is CBOR-encoded.              *)
SigStructure(protectedBytes, payload) == <<"Signature1", protectedBytes, "", payload>>

(* Protected header byte strings: "a10127" is the canonical encoding of    *)
(* the map {1: -8}, "b900010127" another encoding of the same map, "a0"    *)
(* the empty map, "01" encodes an integer, "ff" is no CBOR item.           *)
ProtDecodes(p) == p \in {"a10127", "b900010127", "a0", "01"}
ProtIsMap(p) == p \in {"a10127", "b900010127", "a0"}
ProtReencoded(p) == IF p = "a0" THEN "" ELSE "a10127"

(* What a hex string given as sign.signature decodes to.  form: "missing"  *)
(* (empty string), "undecodable" (not hex, or no CBOR item), "notarray",   *)
(* "array" (with len elements: protected, unprotected, payload,            *)
(* signature).  unprot: "map" or "notmap"; hashed: the value under         *)
(* 'hashed' ("absent", "true", "false", "one" for 1, "str" for a string).  *)
SigEnvelope(form, len, prot, unprot, hashed, payload, signature) ==
  [form |-> form, len |-> len, prot |-> prot, unprot |-> unprot,
   hashed |-> hashed, payload |-> payload, signature |-> signature]

(* What a hex string given as sign.key decodes to: kty under 1, crv under  *)
(* -1, x under -2 (NoVal / NoNum when absent), xlen the length of x.       *)
KeyEnvelope(form, kty, crv, x, xlen) ==
  [form |-> form, kty |-> kty, crv |-> crv, x |-> x, xlen |-> xlen]

NoSign == [present |-> FALSE,
           signature |-> SigEnvelope("missing", 0, "ff", "notmap", "absent", PNull,
                                     Signature("none", <<>>)),
           key |-> KeyEnvelope("missing", NoNum, NoNum, NoVal, 0)]

(* What a hex string given as signedConnection.txHex decodes to: form      *)
(* "missing", "undecodable", "short" (no array of >= 2 elements),          *)
(* "nowitness" (second element no object), "tx" (body and witness set);    *)
(* meta is the address under metadata label 674, NoVal when there is none. *)
TxEnvelope(form, meta) == [form |-> form, meta |-> meta]

(* connectionData: whether the argument is there, data.address,            *)
(* data.name, and signedConnection's txHex, hash and sign.                 *)
ConnData(present, dataAddress, dataName, tx, hash, sign) ==
  [present |-> present, dataAddress |-> dataAddress, dataName |-> dataName,
   tx |-> tx, hash |-> hash, sign |-> sign]
NoTx == TxEnvelope("missing", NoVal)
NoConnData == ConnData(FALSE, NoVal, NoVal, NoTx, NoVal, NoSign)

(* The outcome of a verification: the value returned, whether the          *)
(* signature check ran, what it answered and over which bytes.             *)
Outcome(ret, checked, sigok, bytes) ==
  [ret |-> ret, checked |-> checked, sigok |-> sigok, bytes |-> bytes]
Unchecked(ret) == Outcome(ret, FALSE, FALSE, <<>>)

----------------------------------------------------------------------------
(* Signature verifier, src/app/lib/signature-verifier.ts (the module the   *)
(* route handlers import) and its CBOR-library variant unnamed/part_006.   *)
(* connectionData is [present, dataAddress, dataName, tx, hash, sign].     *)

(* name?.toLowerCase() || 'unknown' (signature-verifier.ts:198) *)
LowerName(n) ==
  CASE Falsy(n) -> "unknown"
    [] n = "Eturnall" -> "eturnall"
    [] OTHER -> n

(* signature-verifier.ts:28-38 *)
validateWalletData(cd) ==
  ~(~cd.present \/ Falsy(cd.dataAddress))

(* unnamed/part_006:125-152 *)
validateWalletData_lib(cd) ==
  IF ~cd.present \/ Falsy(cd.dataAddress) THEN FALSE
  ELSE IF Falsy(cd.hash) \/ ~cd.sign.present THEN FALSE
  ELSE TRUE

(* signature-verifier.ts:105-177: no signature is checked on this path.    *)
verifyTransactionSignature(cd) ==
  IF cd.tx.form = "missing" THEN Unchecked(FALSE)
  ELSE IF cd.tx.form = "undecodable" THEN Unchecked(FALSE)
  ELSE IF cd.tx.form = "short" THEN Unchecked(FALSE)
  ELSE IF cd.tx.form = "nowitness" THEN Unchecked(FALSE)
  ELSE IF cd.tx.meta # NoVal THEN Unchecked(cd.tx.meta = cd.dataAddress)
  ELSE Unchecked(TRUE)

(* signature-verifier.ts:191-325.  env is [nodeEnv, deps, keyThrows]: deps *)
(* says whether the dynamic imports succeed, keyThrows whether the         *)
(* library's verify throws (rather than answers false) on a public key     *)
(* that is not 32 bytes long.                                              *)
verifyCIP8Signature(cd, env) ==
  LET sg == cd.sign.signature
      ky == cd.sign.key
      dev == env.nodeEnv = "development"
      message == Utf8(HexBytes(cd.hash))
      payload == sg.payload
      isHashed == sg.hashed \in {"true", "one", "str"}
      rebuilt == payload = PNull \/ (Utf8(payload) = "" /\ message # "")
      usePayload ==
        IF message # "" /\ rebuilt
        THEN (IF isHashed THEN blake2bHex(message) ELSE Utf8Bytes(message))
        ELSE payload
      messageToCheck ==
        IF isHashed /\ ~IsHexText(message) THEN blake2bHex(message) ELSE message
      throws ==
        \/ ~env.deps
        \/ ky.form # "map" \/ ky.x = NoVal
        \/ sg.form # "array" \/ sg.len # 4
        \/ ~ProtIsMap(sg.prot) \/ sg.unprot # "map"
      mismatch ==
        /\ message # ""
        /\ payload # PNull
        /\ \/ isHashed /\ payload # messageToCheck
           \/ ~isHashed /\ Utf8(payload) # message
      bytes == SigStructure(ProtReencoded(sg.prot), usePayload)
      verified == ky.xlen = 32 /\ ed25519Verify(bytes, sg.signature, ky.x)
  IN
  IF ~cd.sign.present \/ sg.form = "missing" \/ ky.form = "missing" \/ Falsy(cd.hash)
    THEN Unchecked(FALSE)
  ELSE IF dev /\ LowerName(cd.dataName) = "eturnall" THEN Unchecked(TRUE)
  ELSE IF throws THEN Unchecked(dev)
  ELSE IF mismatch THEN Unchecked(FALSE)
  ELSE IF ky.xlen # 32 /\ env.keyThrows THEN Outcome(dev, TRUE, FALSE, bytes)
  ELSE Outcome(verified, TRUE, verified, bytes)

(* unnamed/part_006:168-328 *)
verifyCIP8Signature_lib(cd) ==
  LET sg == cd.sign.signature
      ky == cd.sign.key
      expectedHash == HexBytes(cd.hash)
      sigPayload ==
        IF sg.payload = PNull \/ sg.payload = "" THEN expectedHash ELSE sg.payload
      bytes == SigStructure(sg.prot, sigPayload)
      verified == ed25519Verify(bytes, sg.signature, ky.x)
  IN
  IF ~cd.sign.present \/ sg.form = "missing" \/ ky.form = "missing" \/ Falsy(cd.hash)
    THEN Unchecked(FALSE)
  ELSE IF sg.form = "undecodable" THEN Unchecked(FALSE)
  ELSE IF sg.form # "array" \/ sg.len # 4 THEN Unchecked(FALSE)
  ELSE IF ~ProtDecodes(sg.prot) THEN Unchecked(FALSE)
  ELSE IF sg.payload # PNull /\ sg.payload # "" /\ sg.payload # expectedHash
    THEN Unchecked(FALSE)
  ELSE IF ky.form = "undecodable" THEN Unchecked(FALSE)
  ELSE IF ky.form # "map" \/ ky.kty # 1 THEN Unchecked(FALSE)
  ELSE IF ky.crv # 6 THEN Unchecked(FALSE)
  ELSE IF ky.x = NoVal THEN Unchecked(FALSE)
  ELSE IF ky.xlen # 32 THEN Unchecked(FALSE)
  ELSE Outcome(verified, TRUE, verified, bytes)

(* A validation result {isValid, message} with what ran behind it; threw   *)
(* says that the call threw instead of returning.                          *)
Result(isValid, message, o) ==
  [isValid |-> isValid, message |-> message, threw |-> FALSE,
   checked |-> o.checked, sigok |-> o.sigok, bytes |-> o.bytes]

(* signature-verifier.ts:40-103 *)
validateWalletConnection(cd, env) ==
  IF ~cd.present
    THEN Result(FALSE, "Cannot read properties of null", Unchecked(FALSE))
  ELSE IF Falsy(cd.dataAddress)
    THEN Result(FALSE, "Missing wallet address", Unchecked(FALSE))
  ELSE IF cd.tx.form # "missing"
    THEN LET o == verifyTransactionSignature(cd) IN
         Result(o.ret,
                IF o.ret THEN "Transaction signature verified successfully"
                         ELSE "Invalid transaction signature", o)
  ELSE IF ~Falsy(cd.hash) /\ cd.sign.present
    THEN LET o == verifyCIP8Signature(cd, env) IN
         Result(o.ret,
                IF o.ret THEN "CIP-8 signature verified successfully"
                         ELSE "Invalid CIP-8 signature", o)
  ELSE IF env.nodeEnv = "development"
    THEN Result(TRUE, "Development bypass", Unchecked(TRUE))
  ELSE Result(FALSE, "No valid signature or transaction found", Unchecked(FALSE))

(* unnamed/part_006:331-375 *)
validateWalletConnection_lib(cd) ==
  IF ~cd.present
    THEN Result(FALSE, "Cannot read properties of null", Unchecked(FALSE))
  ELSE IF Falsy(cd.dataAddress) \/ Falsy(cd.hash) \/ ~cd.sign.present
    THEN Result(FALSE, "Missing required connection data", Unchecked(FALSE))
  ELSE LET o == verifyCIP8Signature_lib(cd) IN
       Result(o.ret,
              IF o.ret THEN "Signature verified successfully" ELSE "Invalid signature",
              o)

----------------------------------------------------------------------------
(* Rate limiter, auth.ts:167-215.  Token counts are kept in thousandths of *)
(* a token, so that elapsed milliseconds times a whole fill rate per       *)
(* second is exact: tokens = 1000 stands for one token.                    *)
Keys == {"k1", "k2"}
Unit == 1000

Min(a, b) == IF a <= b THEN a ELSE b

(* A bucket: id is the identity of the object, 0 for no object.            *)
Bucket(id, tokens, lastRefill, capacity, fillRate) ==
  [id |-> id, tokens |-> tokens, lastRefill |-> lastRefill,
   capacity |-> capacity, fillRate |-> fillRate]
NoBucket == Bucket(0, 0, 0, 0, 0)

(* auth.ts:174-183, without initialTokens (getInstance never passes it)    *)
RateLimiter(capacity, fillRate, t, id) ==
  Bucket(id, capacity * Unit, t, capacity, fillRate)

(* A variant of getInstance that makes a new bucket at every call.         *)
getInstanceAlways(inst, key, capacity, fillRate, t, id) ==
  [inst EXCEPT ![key] = Bucket(id, capacity * Unit, t, capacity, fillRate)]

(* auth.ts:185-194 *)
getInstance(inst, key, capacity, fillRate, t, id) ==
  IF inst[key] = NoBucket
    THEN [inst EXCEPT ![key] = RateLimiter(capacity, fillRate, t, id)]
    ELSE inst

(* A variant of refill without the cap at capacity.                        *)
refillNoCap(b, t) ==
  [b EXCEPT !.tokens = b.tokens + (t - b.lastRefill) * b.fillRate, !.lastRefill = t]

(* auth.ts:196-203 *)
refill(b, t) ==
  LET elapsedTime == t - b.lastRefill
      tokensToAdd == elapsedTime * b.fillRate
  IN [b EXCEPT !.tokens = Min(b.capacity * Unit, b.tokens + tokensToAdd),
               !.lastRefill = t]

(* A variant of tryConsume that allows without taking the tokens.          *)
tryConsumeFree(b, cost, t) ==
  LET r == refill(b, t) IN [bucket |-> r, ok |-> r.tokens >= cost]

(* A variant of tryConsume that decides on the tokens left by the last     *)
(* call, and refills afterwards.                                           *)
tryConsumeStale(b, cost, t) ==
  IF b.tokens >= cost
    THEN [bucket |-> refill([b EXCEPT !.tokens = b.tokens - cost], t), ok |-> TRUE]
    ELSE [bucket |-> refill(b, t), ok |-> FALSE]

(* auth.ts:205-214: the bucket afterwards and the value returned           *)
tryConsume(b, cost, t) ==
  LET r == refill(b, t) IN
  IF r.tokens >= cost
    THEN [bucket |-> [r EXCEPT !.tokens = r.tokens - cost], ok |-> TRUE]
    ELSE [bucket |-> r, ok |-> FALSE]

(* Concurrent requests that share one key, and the arguments their         *)
(* handlers pass to getInstance.                                           *)
Reqs == {"r1", "r2"}
SharedKey == "k1"

(* The record of a RateLimiter call: the bucket of the key before and      *)
(* after it, the time of the call and the value returned.                  *)
Last(op, key, cost, args, pre, post, ok) ==
  [op |-> op, key |-> key, cost |-> cost, args |-> args, pre |-> pre,
   post |-> post, ok |-> ok]
NoLast == Last("none", "none", 0, <<0, 0>>, NoBucket, NoBucket, FALSE)

(* An observation window on a key: when it started, the tokens the bucket  *)
(* could give then, the unit-cost calls allowed since, and whether every   *)
(* call since was a unit-cost call.                                        *)
(* early counts the calls allowed before any time elapsed in the window.   *)
Mark(key, at, avail, count, early, unit) ==
  [key |-> key, at |-> at, avail |-> avail, count |-> count, early |-> early,
   unit |-> unit]
NoMark == Mark("none", 0, 0, 0, 0, FALSE)

Counted(m, key, cost, ok, t) ==
  IF m.key # key THEN m
  ELSE IF cost # Unit THEN [m EXCEPT !.unit = FALSE]
  ELSE IF ok THEN [m EXCEPT !.count = m.count + 1,
                            !.early = IF t = m.at THEN m.early + 1 ELSE m.early]
  ELSE m

(* CSRF tokens, auth.ts:151-165.  A string is the sequence of its          *)
(* characters.                                                             *)
HexDigits == {"0", "1", "2", "3", "4", "5", "6", "7", "8", "9",
              "a", "b", "c", "d", "e", "f", "A", "B", "C", "D", "E", "F"}
ToLower(c) ==
  CASE c = "A" -> "a" [] c = "B" -> "b" [] c = "C" -> "c"
    [] c = "D" -> "d" [] c = "E" -> "e" [] c = "F" -> "f" [] OTHER -> c

(* Buffer.from(s, 'hex'): one byte for each pair of hex digits, stopping   *)
(* at the first pair that is not two hex digits; a last odd character is   *)
(* dropped.  A byte is written as its two lower-case digits.               *)
RECURSIVE BufferFromHex(_)
BufferFromHex(s) ==
  IF Len(s) < 2 \/ s[1] \notin HexDigits \/ s[2] \notin HexDigits THEN <<>>
  ELSE <<(<<ToLower(s[1]), ToLower(s[2])>>)>> \o BufferFromHex(SubSeq(s, 3, Len(s)))

(* A variant of validateCsrfToken that compares the strings themselves.    *)
validateCsrfTokenExact(providedToken, storedToken) ==
  [ok |-> providedToken = storedToken, threw |-> FALSE]

(* auth.ts:155-165: crypto.timingSafeEqual throws on buffers of different  *)
(* lengths; the catch turns every throw into false.                        *)
validateCsrfToken(providedToken, storedToken) ==
  LET a == BufferFromHex(providedToken)
      b == BufferFromHex(storedToken)
  IN
  IF Len(a) # Len(b) THEN [ok |-> FALSE, threw |-> FALSE]
  ELSE [ok |-> a = b, threw |-> FALSE]

NoCsrf == [op |-> "none", stored |-> <<>>, provided |-> <<>>, ok |-> FALSE,
           threw |-> FALSE]
(* WalletProvider (providers/walletProvider.tsx:203-211) as first          *)
(* rendered, with what the browser keeps across page loads: saved is the   *)
(* localStorage item walletConnection, jar the wallet_session cookie       *)
(* ("none", "valid", or "stale" for one the server no longer accepts),     *)
(* handler the session route deployed.  stage is "idle", "verifying"       *)
(* (GET /api/wallet/session in flight), "posting" (POST                    *)
(* /api/wallet/connect in flight), "leaving" (window.location assigned).   *)
(* said is the server's answer to the page's latest request, "none" while  *)
(* it is awaited.                                                          *)
Wallet0(saved, jar, handler) ==
  [isConnected |-> FALSE, isConnecting |-> FALSE, isModalOpen |-> FALSE,
   sessionExpired |-> FALSE, saved |-> saved, jar |-> jar,
   handler |-> handler, stage |-> IF saved THEN "verifying" ELSE "idle",
   said |-> "none"]

(* new BalanceManager(): both maps empty, nothing fetched, nothing asked.   *)
(* A fetch is known by its number; 0 stands for "no entry".                *)
NoCached == [has |-> FALSE, balance |-> 0, timestamp |-> 0]
Manager0 ==
  [balanceCache    |-> [a \in Addrs |-> NoCached],
   pendingRequests |-> [a \in Addrs |-> 0],
   fetches         |-> <<>>,
   calls           |-> <<>>]

(* The page before the wallet popup has come back: no localStorage item,   *)
(* nothing queued for the window, callbackProcessedRef.current false.      *)
Delivery0(good, opener) ==
  [good |-> good, opener |-> opener, closes |-> 0, popup |-> "open",
   item |-> FALSE, storage |-> 0, object |-> 0, gc |-> 0,
   processed |-> FALSE, timer |-> FALSE, page |-> "open",
   runs |-> 0, awaiting |-> 0, posts |-> 0, answered |-> 0]

ClientIdle ==
  /\ csrf = NoCsrf
  /\ client = Wallet0(FALSE, "none", "part_003")
  /\ manager = Manager0
  /\ delivery = Delivery0(TRUE, TRUE)

RateIdle ==
  /\ dateNow = 0
  /\ instances = [k \in Keys |-> NoBucket]
  /\ last = NoLast
  /\ mark = NoMark
  /\ pc = [r \in Reqs |-> "idle"]

----------------------------------------------------------------------------
(* The token manager driven by a caller: tokens are issued, presented      *)
(* (any string may be handed to the checks), checked, refreshed, and the   *)
(* clock advances.  `call` holds the last operation at the current instant *)
(* and is cleared when the clock moves.                                    *)

NoSd == [address |-> NoVal, networkId |-> NoNum, name |-> NoVal]
NoOrigin == [how |-> "none", sd |-> NoSd, at |-> NoNum]
NoCall == [op |-> "none", arg |-> NoToken, ok |-> FALSE, out |-> NoToken]
(* The options of a response.cookies.set('wallet_session', ...) call;      *)
(* NoOptions when the response sets no such cookie.                        *)
CookieOptions(httpOnly, secure, sameSite, maxAge, path) ==
  [httpOnly |-> httpOnly, secure |-> secure, sameSite |-> sameSite,
   maxAge |-> maxAge, path |-> path]
NoOptions == CookieOptions(FALSE, FALSE, "none", 0, NoVal)
NoResp ==
  [route |-> "none", path |-> NoVal, status |-> 0, issued |-> FALSE,
   hasSession |-> FALSE, walletAddr |-> NoVal, claimAddr |-> NoVal,
   malformed |-> FALSE, isValid |-> FALSE, message |-> "", threw |-> FALSE,
   checked |-> FALSE, sigok |-> FALSE, bytes |-> <<>>,
   reqOrigin |-> NoVal, contentType |-> NoVal, bodyRead |-> FALSE,
   deps |-> TRUE, setCookie |-> NoOptions]

(* createSecureSessionToken is a function of any sessionData, the empty    *)
(* address included; the connect handler only passes non-empty addresses.  *)
SessionInputs == [address : Addrs \cup {""}, networkId : Nets, name : Names]

(* Strings a caller may present: JWTs with or without address, token       *)
(* identifier and expiry, under either HMAC algorithm, signed with the     *)
(* environment secret (by whoever else holds it) or with a key of the      *)
(* caller's own; and a string that is no JWT.                              *)
TokenInputs ==
  { Token(a, 1, n, j, NoNum, NoNum, e, alg, k) :
      a \in {NoVal, "addr1"}, n \in Names, j \in {NoNum, 77},
      e \in {NoNum, 1001, 2200}, alg \in {"HS256", "HS512"},
      k \in {"env", "attacker"} }
  \cup {[NoToken EXCEPT !.kind = "garbage"]}

Tick(d) ==
  /\ ticks < MaxTicks
  /\ now' = now + d
  /\ ticks' = ticks + 1
  /\ call' = NoCall
  /\ resp' = NoResp
  /\ UNCHANGED <<AuthFrame, nextId, tok, origin, cookie>>

Issue(sd) ==
  /\ nextId < MaxIds
  /\ tok' = createSecureSessionToken(sd, now, nextId + 1)
  /\ nextId' = nextId + 1
  /\ origin' = [how |-> "issued", sd |-> sd, at |-> now]
  /\ call' = [op |-> "issue", arg |-> NoToken, ok |-> TRUE, out |-> tok']
  /\ UNCHANGED <<AuthFrame, now, ticks, cookie, resp>>

Present(t) ==
  /\ origin.how = "none"
  /\ tok' = t
  /\ origin' = [NoOrigin EXCEPT !.how = "presented"]
  /\ call' = NoCall
  /\ UNCHANGED <<AuthFrame, now, ticks, nextId, cookie, resp>>

Validate ==
  /\ call' = [op |-> "validateSession", arg |-> tok,
              ok |-> validateSession(tok, now), out |-> NoToken]
  /\ UNCHANGED <<AuthFrame, now, ticks, nextId, tok, origin, cookie, resp>>

GetData ==
  /\ LET p == getSessionData(tok, cookie, now) IN
       call' = [op |-> "getSessionData", arg |-> tok, ok |-> p # NoToken, out |-> p]
  /\ UNCHANGED <<AuthFrame, now, ticks, nextId, tok, origin, cookie, resp>>

RouteValidate ==
  /\ tok.kind # "none"
  /\ LET v == validateSessionToken(tok, envSecret, now) IN
       call' = [op |-> "validateSessionToken", arg |-> tok, ok |-> v,
                out |-> IF v THEN tok ELSE NoToken]
  /\ UNCHANGED <<AuthFrame, now, ticks, nextId, tok, origin, cookie, resp>>

Refresh ==
  /\ nextId < MaxIds
  /\ LET r == refreshSessionToken(tok, cookie, now, nextId + 1) IN
       /\ call' = [op |-> "refreshSessionToken", arg |-> tok, ok |-> r # NoToken,
                   out |-> r]
       /\ IF r # NoToken
            THEN /\ tok' = r
                 /\ nextId' = nextId + 1
                 /\ origin' = [NoOrigin EXCEPT !.how = "refreshed"]
            ELSE UNCHANGED <<tok, nextId, origin>>
  /\ UNCHANGED <<AuthFrame, now, ticks, cookie, resp>>

ShouldRefresh ==
  /\ tok.kind = "jwt"
  /\ call' = [op |-> "shouldRefreshToken", arg |-> tok,
              ok |-> shouldRefreshToken(tok, now), out |-> NoToken]
  /\ UNCHANGED <<AuthFrame, now, ticks, nextId, tok, origin, cookie, resp>>

InitAuth ==
  /\ now = 1000
  /\ ticks = 0
  /\ envSecret \in BOOLEAN
  /\ nodeEnv = "production"
  /\ nextId = 0
  /\ tok = NoToken
  /\ origin = NoOrigin
  /\ call = NoCall
  /\ cookie = NoToken
  /\ resp = NoResp
  /\ proof = NoConnData
  /\ RateIdle
  /\ ClientIdle

NextAuth ==
  \/ \E d \in Steps : Tick(d)
  \/ \E sd \in SessionInputs : Issue(sd)
  \/ \E t \in TokenInputs : Present(t)
  \/ Validate
  \/ GetData
  \/ RouteValidate
  \/ Refresh
  \/ ShouldRefresh

SpecAuth == InitAuth /\ [][NextAuth]_vars

----------------------------------------------------------------------------
(* Properties of the token manager (checked under SpecAuth).               *)

JustIssued == origin.how = "issued" /\ origin.at = now /\ call.arg = tok

(* C5 as stated: validating the token right after issuance succeeds and    *)
(* yields exactly the address, networkId and name passed to issue (the     *)
(* empty name included), with expiresAt > now.                             *)
C5_RoundTripExact ==
  (call.op = "getSessionData" /\ JustIssued) =>
    /\ call.ok
    /\ call.out.address = origin.sd.address
    /\ call.out.networkId = origin.sd.networkId
    /\ call.out.name = origin.sd.name
    /\ call.out.exp > now

(* C5 amended: validating the token right after issuance succeeds and      *)
(* yields the address and networkId passed to issue, the name passed to    *)
(* issue when that name is not empty and "Unknown Wallet" when it is       *)
(* empty, with expiresAt > now.                                            *)
C5_RoundTripDefaultName ==
  (call.op = "getSessionData" /\ JustIssued) =>
    /\ call.ok
    /\ call.out.address = origin.sd.address
    /\ call.out.networkId = origin.sd.networkId
    /\ (origin.sd.name # "" => call.out.name = origin.sd.name)
    /\ (origin.sd.name = "" => call.out.name = "Unknown Wallet")
    /\ call.out.exp > now

C5_Witness ==
  /\ call.op = "getSessionData" /\ JustIssued /\ call.ok
  /\ origin.sd.name = "" /\ origin.sd.networkId = 0

(* C6: session validation rejects a token whenever expiresAt <= now, the   *)
(* instant now = expiresAt included; and as the clock advances a token     *)
(* rejected for expiry is not accepted again.                              *)
C6_RejectedAtExpiry ==
  (call.op \in {"validateSession", "getSessionData"}
     /\ call.arg.exp # NoNum /\ call.arg.exp <= now) => ~call.ok

C6_StaysRejected ==
  (tok' = tok /\ tok.kind = "jwt" /\ tok.exp # NoNum /\ tok.exp <= now
     /\ ~validateSession(tok, now) /\ now' >= now)
  => (~validateSession(tok, now') /\ getSessionData(tok, NoToken, now') = NoToken)

C6_ExpiredRejected == []C6_RejectedAtExpiry /\ [][C6_StaysRejected]_vars

WellFormed(t) ==
  /\ t.kind = "jwt" /\ t.key = JWT_SECRET /\ t.alg = "HS256"
  /\ ~Falsy(t.address) /\ t.jti # NoNum

C6_Witness ==
  /\ call.op = "validateSession" /\ WellFormed(call.arg)
  /\ call.arg.exp = now /\ ~call.ok

(* C7: no session check (validateSession, getSessionData, the session      *)
(* route's validateSessionToken) accepts a token whose address or token    *)
(* identifier is absent.                                                   *)
C7_AbsentFieldsRejected ==
  (call.op \in {"validateSession", "getSessionData", "validateSessionToken"}
     /\ (Falsy(call.arg.address) \/ call.arg.jti = NoNum)) => ~call.ok

(* an issued token with an empty address accepted by getSessionData        *)
C7_Witness ==
  /\ call.op = "getSessionData" /\ call.ok /\ origin.how = "issued"
  /\ call.arg.address = "" /\ call.arg.key = JWT_SECRET /\ call.arg.exp > now

(* C8: refreshSessionToken returns null whenever validateSession rejects   *)
(* the token it is given.                                                  *)
C8_NoRefreshOfInvalid ==
  (call.op = "refreshSessionToken" /\ ~validateSession(call.arg, now)) => ~call.ok

(* a token validateSession rejects for its empty address, refreshed        *)
C8_Witness ==
  /\ call.op = "refreshSessionToken" /\ call.ok /\ ~validateSession(call.arg, now)
  /\ call.arg.address = "" /\ call.out.kind = "jwt"

C10_ShouldRefreshThreshold ==
  (call.op = "shouldRefreshToken" /\ call.arg.exp # NoNum) =>
    /\ (call.ok <=> call.arg.exp - now < 1800)
    /\ (call.arg.exp - now \in {7200, 2000, 1800} => ~call.ok)
    /\ (call.arg.exp - now = 1000 => call.ok)

C10_Witness ==
  /\ call.op = "shouldRefreshToken" /\ origin.how = "issued"
  /\ call.arg.exp - now = 1800 /\ ~call.ok

----------------------------------------------------------------------------
(* The HTTP side: POST /api/wallet/connect in its two versions, the        *)
(* middleware, GET /api/wallet/session in its two versions, and a client   *)
(* that holds the wallet_session cookie and may set it to any string.      *)

(* unnamed/part_001:6-10.  The deployment sets the site URL variable the   *)
(* handler reads to app.example.                                           *)
ALLOWED_ORIGINS(env) ==
  {"https://app.example", "https://www.app.example"}
    \cup (IF env = "development" THEN {"http://localhost:3000"} ELSE {})

(* A variant of validateOrigin that accepts every origin starting with an  *)
(* allowed one.                                                            *)
validateOriginPrefix(o, env) ==
  IF Falsy(o) THEN FALSE
  ELSE o \in {"https://app.example", "https://www.app.example",
              "https://app.example.evil.example"}
         \cup (IF env = "development" THEN {"http://localhost:3000"} ELSE {})

(* validateOrigin, auth.ts:217-227, with NEXT_PUBLIC_URL = app.example     *)
validateOrigin(o, env) ==
  LET allowed ==
        {"https://app.example", "https://www.app.example"}
          \cup (IF env = "development" THEN {"http://localhost:3000"} ELSE {})
  IN IF Falsy(o) THEN FALSE ELSE o \in allowed

(* Origin header values: none, empty, the allowed ones, and strings that   *)
(* contain an allowed origin, are contained in one, or share a prefix or   *)
(* suffix with one.                                                        *)
OriginInputs ==
  {NoVal, "", "https://app.example", "https://www.app.example",
   "http://localhost:3000", "https://app.example.evil.example",
   "https://evil.example/https://app.example", "app.example",
   "https://app.exampl", "https://evil.example", "HTTPS://APP.EXAMPLE"}

(* The protected header and the two payloads a wallet may have signed.     *)
SignedInputs ==
  {SigStructure("a10127", "6869"), SigStructure("a10127", "b2b0hi"), <<"garbage">>}
SignatureInputs == {Signature(k, m) : k \in {"k1", "k2"}, m \in SignedInputs}

SigInputs ==
  {SigEnvelope("array", 4, "a10127", "map", h, pl, sg) :
     h \in {"absent", "true", "false", "one", "str"},
     pl \in {PNull, "", "6869", "6162"}, sg \in SignatureInputs}
  \cup {SigEnvelope(f[1], f[2], f[3], f[4], "true", PNull,
                    Signature("k1", SigStructure("a10127", "6869"))) :
          f \in {<<"undecodable", 0, "ff", "notmap">>,
                 <<"notarray", 0, "ff", "notmap">>,
                 <<"array", 3, "a10127", "map">>,
                 <<"array", 4, "ff", "map">>,
                 <<"array", 4, "a10127", "notmap">>}}
  \cup {SigEnvelope("array", 4, pr, "map", "absent", "6869",
                    Signature("k1", SigStructure(so, "6869"))) :
          pr \in {"b900010127", "a0"}, so \in {"a10127", "b900010127", "a0", ""}}

KeyInputs ==
  {KeyEnvelope("map", 1, 6, "k1", 32),
   KeyEnvelope("undecodable", NoNum, NoNum, NoVal, 0),
   KeyEnvelope("map", 2, 6, "k1", 32),
   KeyEnvelope("map", 1, 1, "k1", 32),
   KeyEnvelope("map", 1, 6, NoVal, 0),
   KeyEnvelope("map", 1, 6, "k1", 31)}

TxInputs ==
  {TxEnvelope(f, NoVal) : f \in {"undecodable", "short", "nowitness", "tx"}}
  \cup {TxEnvelope("tx", a) : a \in Addrs}

(* connectionData handed to the verifier: nothing, transaction-based      *)
(* proof, no proof at all, and CIP-8 proof.                                *)
ProofInputs ==
  {NoConnData}
  \cup {ConnData(TRUE, a, "eternl", tx, NoVal, NoSign) :
          a \in Addrs \cup {NoVal}, tx \in TxInputs}
  \cup {ConnData(TRUE, a, "eternl", NoTx, h, NoSign) :
          a \in Addrs \cup {NoVal}, h \in {NoVal, "6869"}}
  \cup {ConnData(TRUE, "addr1", n, NoTx, h,
                 [present |-> TRUE, signature |-> sg, key |-> ky]) :
          n \in {"eternl", "Eturnall"}, h \in {"6869", "zz"},
          sg \in SigInputs, ky \in KeyInputs}

(* connectionData as sent to the connect route: each kind of proof, with   *)
(* the CIP-8 envelope valid, signed by another key, altered, undecodable.  *)
GoodKey == KeyEnvelope("map", 1, 6, "k1", 32)
Cip8(n, sg, ky) ==
  ConnData(TRUE, "addr1", n, NoTx, "6869",
           [present |-> TRUE, signature |-> sg, key |-> ky])
ValidCip8 ==
  Cip8("eternl",
       SigEnvelope("array", 4, "a10127", "map", "true", PNull,
                   Signature("k1", SigStructure("a10127", "b2b0hi"))), GoodKey)
ConnInputs ==
  {NoConnData}
  \cup {ConnData(TRUE, a, "eternl", tx, NoVal, NoSign) :
          a \in {"addr1", NoVal}, tx \in TxInputs}
  \cup {ConnData(TRUE, "addr1", "eternl", NoTx, h, NoSign) : h \in {NoVal, "6869"}}
  \cup {Cip8("eternl",
              SigEnvelope("array", 4, "a10127", "map", "true", PNull, Signature(k, m)),
              GoodKey) :
          k \in {"k1", "k2"}, m \in SignedInputs}
  \cup {Cip8("Eturnall",
              SigEnvelope("array", 4, "a10127", "map", "true", PNull,
                          Signature("k2", <<"garbage">>)), GoodKey),
        Cip8("eternl",
              SigEnvelope("undecodable", 0, "ff", "notmap", "absent", PNull,
                          Signature("k1", <<"garbage">>)), GoodKey),
        Cip8("eternl",
              SigEnvelope("array", 4, "a10127", "map", "true", PNull,
                          Signature("k1", SigStructure("a10127", "b2b0hi"))),
              KeyEnvelope("map", 1, 6, "k1", 31))}

(* A connect request: headers, the body's form ("empty", "malformed" or    *)
(* "json") and its fields.                                                 *)
Request(reqOrigin, contentType, body, hasToken, wallet, connectionData) ==
  [origin |-> reqOrigin, contentType |-> contentType, body |-> body,
   hasToken |-> hasToken, wallet |-> wallet, connectionData |-> connectionData]

Wallet(a) == [address |-> a, networkId |-> 1, name |-> "eternl"]

ReqInputs ==
  {Request("https://app.example", "application/json", "json", TRUE, Wallet("addr1"), cd) :
     cd \in ConnInputs}
  \cup {Request("https://app.example", "application/json", "json", TRUE, Wallet("addr2"), cd) :
          cd \in {ConnData(TRUE, "addr1", "eternl", TxEnvelope("tx", NoVal), NoVal, NoSign),
                  ValidCip8}}
  \cup {Request(f[1], f[2], f[3], f[4], Wallet(f[5]),
                ConnData(TRUE, "addr1", "eternl", TxEnvelope("tx", NoVal), NoVal, NoSign)) :
          f \in {<<"https://evil.example", "application/json", "json", TRUE, "addr1">>,
                 <<NoVal, "application/json", "json", TRUE, "addr1">>,
                 <<"https://app.example", "text/plain", "json", TRUE, "addr1">>,
                 <<"https://app.example", "application/json", "empty", TRUE, "addr1">>,
                 <<"https://app.example", "application/json", "malformed", TRUE, "addr1">>,
                 <<"https://app.example", "application/json", "json", FALSE, "addr1">>,
                 <<"https://app.example", "application/json", "json", TRUE, NoVal>>}}

(* A CIP-8 proof with a decode or structural error: a signature or key     *)
(* string that is not hex or decodes to no CBOR item, an envelope that is  *)
(* no array of 4 elements, protected headers that do not decode.           *)
Malformed(cd) ==
  /\ cd.present /\ cd.sign.present
  /\ \/ cd.sign.signature.form \in {"undecodable", "notarray"}
     \/ cd.sign.signature.len # 4
     \/ ~ProtDecodes(cd.sign.signature.prot)
     \/ cd.sign.key.form = "undecodable"

(* The record of an exchange: the route, the request's addresses, the      *)
(* response's status, whether a wallet_session cookie was set, and the     *)
(* validation result r behind it; deps says whether the verifier's dynamic *)
(* imports succeeded in that exchange.                                     *)
Resp(route, path, status, issued, hasSession, req, r) ==
  [route |-> route, path |-> path, status |-> status, issued |-> issued,
   hasSession |-> hasSession, walletAddr |-> req.wallet.address,
   claimAddr |-> req.connectionData.dataAddress,
   malformed |-> Malformed(req.connectionData),
   isValid |-> r.isValid, message |-> r.message, threw |-> r.threw,
   checked |-> r.checked, sigok |-> r.sigok, bytes |-> r.bytes,
   reqOrigin |-> req.origin, contentType |-> req.contentType, bodyRead |-> FALSE,
   deps |-> TRUE, setCookie |-> NoOptions]
NoResult == Result(FALSE, "", Unchecked(FALSE))
NoRequest == Request(NoVal, NoVal, "empty", FALSE, Wallet(NoVal), NoConnData)

LibInputs ==
  {[deps |-> TRUE, keyThrows |-> FALSE], [deps |-> TRUE, keyThrows |-> TRUE],
   [deps |-> FALSE, keyThrows |-> FALSE]}
DefaultLib == [deps |-> TRUE, keyThrows |-> FALSE]
(* Requests with the state of the verifier's libraries: every request with *)
(* the libraries working, the CIP-8 requests with each failure.            *)
ConnectInputs ==
  {<<req, DefaultLib>> : req \in ReqInputs}
  \cup {<<req, lib>> : req \in {r \in ReqInputs : r.connectionData.sign.present
                                                  /\ r.wallet.address = "addr1"
                                                  /\ r.connectionData.sign.key = GoodKey
                                                  /\ r.connectionData.sign.signature.form = "array"
                                                  /\ r.connectionData.sign.signature.signature.by = "k2"},
                       lib \in LibInputs \ {DefaultLib}}
Env(lib) == [nodeEnv |-> nodeEnv, deps |-> lib.deps, keyThrows |-> lib.keyThrows]

(* contentType.includes('application/json') *)
IncludesJson(ct) == ct \in {"application/json", "application/json; charset=utf-8"}

(* POST /api/wallet/connect, unnamed/part_001:12-159: the response status, *)
(* the validation result, and the session token set as cookie (NoToken     *)
(* when none is set).  id is the value of crypto.randomBytes.              *)
POST(req, env, t, id) ==
  LET cd == req.connectionData
      r == validateWalletConnection(cd, env)
      out(status, res, token) ==
        [status |-> status, r |-> res, token |-> token, read |-> TRUE,
         options |-> IF token = NoToken THEN NoOptions
                     ELSE CookieOptions(TRUE, TRUE, "strict", 60 * 60 * 2, "/")]
      early(status) ==
        [status |-> status, r |-> NoResult, token |-> NoToken, read |-> FALSE,
         options |-> NoOptions]
  IN
  IF req.origin # NoVal /\ req.origin \notin ALLOWED_ORIGINS(env.nodeEnv)
    THEN early(403)
  ELSE IF req.contentType = NoVal \/ ~IncludesJson(req.contentType)
    THEN early(400)
  ELSE IF req.body = "empty" THEN out(400, NoResult, NoToken)
  ELSE IF req.body = "malformed" THEN out(400, NoResult, NoToken)
  ELSE IF ~req.hasToken \/ Falsy(req.wallet.address) THEN out(400, NoResult, NoToken)
  ELSE IF ~validateWalletData(cd) THEN out(400, NoResult, NoToken)
  ELSE IF ~r.isValid THEN out(401, r, NoToken)
  ELSE out(200, r, createSecureSessionToken(
                     [address |-> req.wallet.address,
                      networkId |-> req.wallet.networkId,
                      name |-> req.wallet.name], t, id))

(* POST /api/wallet/connect, unnamed/part_002:17-149: the cookie is the    *)
(* JSON text of the session object.                                        *)
POST_json(req, env) ==
  LET cd == req.connectionData
      r == validateWalletConnection(cd, env)
      out(status, res, token) ==
        [status |-> status, r |-> res, token |-> token, read |-> TRUE,
         options |-> IF token = NoToken THEN NoOptions
                     ELSE CookieOptions(TRUE, env.nodeEnv = "production", "strict",
                                        60 * 60 * 24 * 7, "/")]
  IN
  IF req.body # "json" THEN out(500, NoResult, NoToken)
  ELSE IF ~cd.present \/ Falsy(req.wallet.address) THEN out(400, NoResult, NoToken)
  ELSE IF ~validateWalletData(cd) THEN out(400, NoResult, NoToken)
  ELSE IF ~r.isValid THEN out(401, r, NoToken)
  ELSE out(200, r, [NoToken EXCEPT !.kind = "json",
                                   !.address = req.wallet.address,
                                   !.name = req.wallet.name,
                                   !.networkId = req.wallet.networkId,
                                   !.verified = TRUE])

(* src/middleware.ts:16-55: 200 stands for NextResponse.next(), 307 for    *)
(* the redirect to /login.                                                 *)
Paths ==
  {"/user", "/user/profile", "/ipfs", "/wallet", "/api/wallet/balance",
   "/api/wallet/connect", "/api/wallet/session"}
StartsWithUser(path) == path \in {"/user", "/user/profile"}
StartsWithIpfs(path) == path \in {"/ipfs"}
StartsWithApiWallet(path) ==
  path \in {"/api/wallet/balance", "/api/wallet/connect", "/api/wallet/session"}

middleware(currentPath, jar) ==
  LET walletSession == jar.kind # "none" IN
  IF currentPath = "/api/wallet/connect" \/ currentPath = "/api/wallet/session"
    THEN 200
  ELSE IF (StartsWithUser(currentPath) \/ StartsWithIpfs(currentPath)) /\ ~walletSession
    THEN 307
  ELSE IF StartsWithApiWallet(currentPath) /\ ~walletSession THEN 401
  ELSE 200

(* GET /api/wallet/session, src/app/api/wallet/session/route.ts:41-135:    *)
(* the cookie is parsed as JSON; on success it is set again.               *)
GET_json(jar, env) ==
  LET refused == [status |-> 401, hasSession |-> FALSE, options |-> NoOptions] IN
  IF jar.kind = "none" THEN refused
  ELSE IF jar.kind # "json" THEN refused
  ELSE IF Falsy(jar.address) \/ ~jar.verified THEN refused
  ELSE [status |-> 200, hasSession |-> TRUE,
        options |-> CookieOptions(TRUE, env = "production", "strict",
                                  60 * 60 * 24 * 7, "/")]

(* GET /api/wallet/session, unnamed/part_003:21-86 *)
GET(jar, env, t) ==
  IF jar.kind = "none" THEN [status |-> 200, hasSession |-> FALSE]
  ELSE IF ~validateSessionToken(jar, env, t) THEN [status |-> 401, hasSession |-> FALSE]
  ELSE [status |-> 200, hasSession |-> TRUE]

(* Cookie values a client may set by itself.                               *)
CookieInputs ==
  {NoToken,
   [NoToken EXCEPT !.kind = "garbage"],
   [NoToken EXCEPT !.kind = "json", !.address = "addr2", !.verified = TRUE],
   Token("addr2", 1, "eternl", 77, NoNum, NoNum, 9000, "HS256", "attacker")}

Connect(req, lib) ==
  /\ nextId < MaxIds
  /\ LET o == POST(req, Env(lib), now, nextId + 1) IN
       /\ resp' = [Resp("connect", "/api/wallet/connect", o.status,
                        o.token # NoToken, FALSE, req, o.r)
                     EXCEPT !.bodyRead = o.read, !.deps = lib.deps,
                            !.setCookie = o.options]
       /\ cookie' = IF o.token # NoToken THEN o.token ELSE cookie
       /\ nextId' = IF o.token # NoToken THEN nextId + 1 ELSE nextId
  /\ UNCHANGED <<HttpFrame, now, ticks>>

ConnectJson(req, lib) ==
  /\ LET o == POST_json(req, Env(lib)) IN
       /\ resp' = [Resp("connect", "/api/wallet/connect", o.status,
                        o.token # NoToken, FALSE, req, o.r)
                     EXCEPT !.bodyRead = o.read, !.deps = lib.deps,
                            !.setCookie = o.options]
       /\ cookie' = IF o.token # NoToken THEN o.token ELSE cookie
  /\ UNCHANGED <<HttpFrame, now, ticks, nextId>>

SetCookie(c) ==
  /\ cookie' = c
  /\ resp' = NoResp
  /\ UNCHANGED <<HttpFrame, now, ticks, nextId>>

Middleware(path) ==
  /\ resp' = Resp("middleware", path, middleware(path, cookie), FALSE, FALSE,
                  NoRequest, NoResult)
  /\ UNCHANGED <<HttpFrame, now, ticks, nextId, cookie>>

SessionGetJson ==
  /\ LET o == GET_json(cookie, nodeEnv) IN
       resp' = [Resp("session", "/api/wallet/session", o.status, o.hasSession,
                     o.hasSession, NoRequest, NoResult)
                  EXCEPT !.setCookie = o.options]
  /\ UNCHANGED <<HttpFrame, now, ticks, nextId, cookie>>

SessionGet ==
  /\ LET o == GET(cookie, envSecret, now) IN
       resp' = Resp("session", "/api/wallet/session", o.status, FALSE,
                    o.hasSession, NoRequest, NoResult)
  /\ UNCHANGED <<HttpFrame, now, ticks, nextId, cookie>>

(* validateOrigin called with an Origin header value.                      *)
CallValidateOrigin(o) ==
  /\ resp' = [NoResp EXCEPT !.route = "validateOrigin", !.reqOrigin = o,
                            !.isValid = validateOrigin(o, nodeEnv)]
  /\ UNCHANGED <<HttpFrame, now, ticks, nextId, cookie>>

(* A session lifetime passes. *)
Expire ==
  /\ ticks < MaxExpiries
  /\ Tick(JWT_EXPIRATION)

InitConnect ==
  /\ now = 1000
  /\ ticks = 0
  /\ envSecret \in BOOLEAN
  /\ nodeEnv \in {"production", "development"}
  /\ nextId = 0
  /\ tok = NoToken
  /\ origin = NoOrigin
  /\ call = NoCall
  /\ cookie = NoToken
  /\ resp = NoResp
  /\ proof = NoConnData
  /\ RateIdle
  /\ ClientIdle

NextConnect ==
  \/ Expire
  \/ \E c \in ConnectInputs : Connect(c[1], c[2])
  \/ \E c \in ConnectInputs : ConnectJson(c[1], c[2])
  \/ \E o \in OriginInputs : CallValidateOrigin(o)
  \/ \E c \in CookieInputs : SetCookie(c)
  \/ \E path \in Paths : Middleware(path)
  \/ SessionGetJson
  \/ SessionGet

SpecConnect == InitConnect /\ [][NextConnect]_vars

----------------------------------------------------------------------------
(* The verifier called directly, in its two versions, on a connectionData  *)
(* drawn at the start.                                                     *)
CallValidate(lib) ==
  /\ resp' = [Resp("validateWalletConnection", NoVal, 0, FALSE, FALSE,
                   [NoRequest EXCEPT !.connectionData = proof],
                   validateWalletConnection(proof, Env(lib)))
                EXCEPT !.deps = lib.deps]
  /\ UNCHANGED <<VerifyFrame, proof>>

CallValidateLib ==
  /\ resp' = Resp("validateWalletConnection_lib", NoVal, 0, FALSE, FALSE,
                  [NoRequest EXCEPT !.connectionData = proof],
                  validateWalletConnection_lib(proof))
  /\ UNCHANGED <<VerifyFrame, proof>>

InitVerify ==
  /\ now = 1000
  /\ ticks = 0
  /\ envSecret = TRUE
  /\ nodeEnv \in {"production", "development"}
  /\ nextId = 0
  /\ tok = NoToken
  /\ origin = NoOrigin
  /\ call = NoCall
  /\ cookie = NoToken
  /\ resp = NoResp
  /\ proof \in ProofInputs
  /\ RateIdle
  /\ ClientIdle

NextVerify ==
  \/ \E lib \in LibInputs : CallValidate(lib)
  \/ CallValidateLib

SpecVerify == InitVerify /\ [][NextVerify]_vars

----------------------------------------------------------------------------
(* Properties of the connect route, the middleware, the session routes and *)
(* the verifier.                                                           *)

(* C1: POST /api/wallet/connect sets the wallet_session cookie only when,  *)
(* for that same request, the signature check over the reconstructed       *)
(* signed bytes against the supplied public key ran and returned true;     *)
(* in every other outcome, under any NODE_ENV, no session is issued.       *)
C1_IssuedOnlyAfterSignatureCheck ==
  (resp.route = "connect" /\ resp.issued) => (resp.checked /\ resp.sigok)

(* a session issued in production on a transaction-based proof, for which  *)
(* no signature check runs                                                 *)
C1_Witness ==
  /\ nodeEnv = "production" /\ resp.route = "connect" /\ resp.issued
  /\ ~resp.checked /\ resp.message = "Transaction signature verified successfully"

(* C2: on every successful connect the address carried by the issued       *)
(* session token equals connectionData.data.address, the address of the    *)
(* claim whose proof was verified.                                         *)
C2_TokenAddressIsClaimAddress ==
  (resp.route = "connect" /\ resp.issued) => cookie.address = resp.claimAddr

(* a session issued in production after a signature check that answered    *)
(* true, for another address than the claim's                              *)
C2_Witness ==
  /\ nodeEnv = "production" /\ resp.route = "connect" /\ resp.issued
  /\ resp.checked /\ resp.sigok
  /\ cookie.kind = "jwt" /\ cookie.address = "addr2" /\ resp.claimAddr = "addr1"

(* C3: a request to a protected path is let through, and the session       *)
(* endpoint reports an active session, only if the wallet_session cookie   *)
(* holds a token that validateSession accepts at that time.                *)
ProtectedPath(path) ==
  /\ StartsWithUser(path) \/ StartsWithIpfs(path) \/ StartsWithApiWallet(path)
  /\ path \notin {"/api/wallet/connect", "/api/wallet/session"}
C3_AccessOnlyWithValidToken ==
  (\/ resp.route = "middleware" /\ ProtectedPath(resp.path) /\ resp.status = 200
   \/ resp.route = "session" /\ resp.hasSession)
    => validateSession(cookie, now)

(* a protected page let through on a cookie that is no token at all        *)
C3_Witness ==
  /\ resp.route = "middleware" /\ resp.path = "/user" /\ resp.status = 200
  /\ cookie.kind = "garbage"

(* C4: on a decode or structural error in the proof (non-hex text, an      *)
(* undecodable envelope or key envelope, a wrong element count),           *)
(* validateWalletConnection returns isValid = false with a message; it     *)
(* neither throws nor returns isValid = true.                              *)
C4_MalformedProofRejected ==
  (resp.route \in {"validateWalletConnection", "validateWalletConnection_lib"}
   /\ resp.malformed)
    => (~resp.threw /\ ~resp.isValid /\ resp.message # "")

(* an undecodable signature envelope answered with isValid = true          *)
C4_Witness ==
  /\ resp.route = "validateWalletConnection" /\ resp.malformed /\ resp.isValid
  /\ proof.sign.signature.form = "undecodable"

----------------------------------------------------------------------------
(* The rate limiter driven by its callers.                                 *)
(* getInstance(key, capacity, fillRate) and tryConsume(cost) calls: every  *)
(* kind of cost on the first key, unit cost on the second.                 *)
ArgInputs ==
  {<<"k1", <<2, 1>>>>, <<"k1", <<3, 2>>>>, <<"k2", <<1, 1>>>>}
RaceArgs == {<<10, 1>>, <<2, 2>>}
CostInputs ==
  {<<"k1", c>> : c \in {0 - Unit, 0, Unit, 2 * Unit}} \cup {<<"k2", Unit>>}
RateSteps == {500, 1000}

NewId == 1 + Cardinality({k \in Keys : instances[k] # NoBucket})

Elapse(d) ==
  /\ ticks < MaxRateTicks
  /\ ticks' = ticks + 1
  /\ dateNow' = dateNow + d
  /\ UNCHANGED <<now, envSecret, nodeEnv, nextId, tok, origin, call, cookie, resp,
                 proof, instances, last, mark, pc, ClientVars>>

GetInstance(key, args) ==
  /\ instances' = getInstance(instances, key, args[1], args[2], dateNow, NewId)
  /\ last' = Last("getInstance", key, 0, args, instances[key], instances'[key], TRUE)
  /\ UNCHANGED <<SessionVars, dateNow, mark, pc>>

TryConsume(key, cost) ==
  /\ instances[key] # NoBucket
  /\ LET o == tryConsume(instances[key], cost, dateNow) IN
       /\ instances' = [instances EXCEPT ![key] = o.bucket]
       /\ last' = Last("tryConsume", key, cost, <<0, 0>>, instances[key], o.bucket, o.ok)
       /\ mark' = Counted(mark, key, cost, o.ok, dateNow)
  /\ UNCHANGED <<SessionVars, dateNow, pc>>

(* An observer starts a window on a key's bucket.                          *)
Observe(key) ==
  /\ mark = NoMark
  /\ instances[key] # NoBucket
  /\ mark' = Mark(key, dateNow, refill(instances[key], dateNow).tokens, 0, 0, TRUE)
  /\ UNCHANGED <<SessionVars, dateNow, instances, last, pc>>

(* A request handler for the shared key: it starts, yields at an await,    *)
(* and when resumed runs RateLimiter.getInstance(key).tryConsume(), with   *)
(* the default arguments (10, 1, 1), without yielding in between; then it  *)
(* ends.                                                                   *)
Begin(r) ==
  /\ pc[r] = "idle"
  /\ pc' = [pc EXCEPT ![r] = "await"]
  /\ UNCHANGED <<SessionVars, dateNow, instances, last, mark>>

Limit(r) ==
  /\ pc[r] = "await"
  /\ LET inst == getInstance(instances, SharedKey, 10, 1, dateNow, NewId)
         o == tryConsume(inst[SharedKey], Unit, dateNow)
     IN
       /\ instances' = [inst EXCEPT ![SharedKey] = o.bucket]
       /\ last' = Last("tryConsume", SharedKey, Unit, <<0, 0>>, inst[SharedKey],
                       o.bucket, o.ok)
       /\ mark' = Counted(mark, SharedKey, Unit, o.ok, dateNow)
       /\ pc' = [pc EXCEPT ![r] = IF o.ok THEN "allowed" ELSE "denied"]
  /\ UNCHANGED <<SessionVars, dateNow>>

Finish(r) ==
  /\ pc[r] \in {"allowed", "denied"}
  /\ pc' = [pc EXCEPT ![r] = "idle"]
  /\ UNCHANGED <<SessionVars, dateNow, instances, last, mark>>

InitRate ==
  /\ now = 1000
  /\ ticks = 0
  /\ envSecret = TRUE
  /\ nodeEnv = "production"
  /\ nextId = 0
  /\ tok = NoToken
  /\ origin = NoOrigin
  /\ call = NoCall
  /\ cookie = NoToken
  /\ resp = NoResp
  /\ proof = NoConnData
  /\ RateIdle
  /\ ClientIdle

NextRate ==
  \/ \E d \in RateSteps : Elapse(d)
  \/ \E a \in ArgInputs : GetInstance(a[1], a[2])
  \/ \E c \in CostInputs : TryConsume(c[1], c[2])

SpecRate == InitRate /\ [][NextRate]_vars

(* Concurrent requests on the shared key, whose bucket they create lazily  *)
(* unless it was created before, and an observer.                          *)
InitRace == InitRate

NextRace ==
  \/ \E d \in RateSteps : Elapse(d)
  \/ \E a \in RaceArgs : GetInstance(SharedKey, a)
  \/ Observe(SharedKey)
  \/ \E r \in Reqs : Begin(r)
  \/ \E r \in Reqs : Limit(r)
  \/ \E r \in Reqs : Finish(r)

SpecRace == InitRace /\ [][NextRace]_vars

----------------------------------------------------------------------------
(* Properties of the rate limiter.                                         *)

(* C11: after any sequence of tryConsume calls on a bucket, with any cost  *)
(* argument and any time elapsing between calls, the bucket's token count  *)
(* satisfies 0 <= tokens <= capacity.                                      *)
C11_TokensWithinCapacity ==
  \A k \in Keys :
    instances[k] # NoBucket =>
      (0 <= instances[k].tokens /\ instances[k].tokens <= instances[k].capacity * Unit)

(* a call with a negative cost leaves more tokens than the capacity        *)
C11_Witness ==
  /\ last.op = "tryConsume" /\ last.cost < 0 /\ last.ok
  /\ instances[last.key].tokens > instances[last.key].capacity * Unit

(* C12: in a window of unit-cost calls on a full bucket of capacity C and  *)
(* fill rate r, the calls made before any time elapses are allowed up to   *)
(* the C-th and denied from then on; when the C calls were allowed and     *)
(* 1/r seconds have elapsed, exactly one further call is allowed; and the  *)
(* calls allowed in a window of T seconds never exceed C + r * T.          *)
InWindow(k) == mark.key = k /\ mark.unit /\ instances[k] # NoBucket
FullWindow(k) == InWindow(k) /\ mark.avail = instances[k].capacity * Unit
CallNow(k) ==
  last.op = "tryConsume" /\ last.key = k /\ last.post.lastRefill = dateNow
C12_BurstThenRate ==
  \A k \in Keys :
    LET C == instances[k].capacity
        r == instances[k].fillRate
        T == dateNow - mark.at
    IN
    /\ InWindow(k) => mark.count * Unit <= C * Unit + r * T
    /\ (FullWindow(k) /\ T = 0) => mark.early <= C
    /\ (FullWindow(k) /\ T = 0 /\ CallNow(k) /\ ~last.ok) => mark.early = C
    /\ (FullWindow(k) /\ mark.early = C /\ r * T = Unit /\ CallNow(k))
         => mark.count = C + 1

(* capacity 10, rate 1: ten calls allowed at once, then one more after a   *)
(* second, and the call after that denied                                  *)
C12_Witness ==
  /\ FullWindow(SharedKey) /\ instances[SharedKey].capacity = 10
  /\ mark.early = 10 /\ dateNow - mark.at = 1000 /\ mark.count = 11
  /\ CallNow(SharedKey) /\ ~last.ok

(* C13: requests for the same key that are suspended at their awaits at    *)
(* the same time never both get the same tokens: the calls allowed in a    *)
(* window never exceed the tokens the bucket had when the window started   *)
(* plus those refilled since.                                              *)
C13_NoDoubleSpend ==
  InWindow(SharedKey) =>
    mark.count * Unit
      <= mark.avail + instances[SharedKey].fillRate * (dateNow - mark.at)

(* one token in the bucket, two requests resumed one after the other at    *)
(* the same instant: the first allowed, the second denied                  *)
C13_Witness ==
  /\ InWindow(SharedKey) /\ mark.avail = Unit /\ dateNow = mark.at
  /\ pc["r1"] = "allowed" /\ pc["r2"] = "denied" /\ mark.count = 1

(* C14: tryConsume(cost) first refills by elapsed seconds * fillRate,      *)
(* capped at capacity, then allows iff tokens >= cost; an allowed call     *)
(* takes exactly cost, a denied call leaves the refilled value.            *)
C14_RefillThenConsume ==
  last.op = "tryConsume" =>
    LET elapsed == last.post.lastRefill - last.pre.lastRefill
        refilled == Min(last.pre.capacity * Unit,
                        last.pre.tokens + elapsed * last.pre.fillRate)
    IN /\ last.ok <=> refilled >= last.cost
       /\ last.ok => last.post.tokens = refilled - last.cost
       /\ ~last.ok => last.post.tokens = refilled

(* a call denied on a bucket that it refilled                              *)
C14_Witness ==
  /\ last.op = "tryConsume" /\ ~last.ok /\ last.cost = 2 * Unit
  /\ last.post.tokens > last.pre.tokens
  /\ last.post.lastRefill = dateNow

(* C15: getInstance(key) creates a bucket on the first call for a key and  *)
(* returns that same bucket on every later call, whatever capacity and     *)
(* fillRate the later call passes; a call on one key's bucket never        *)
(* changes another key's bucket.                                           *)
C15_FirstCall ==
  last.op = "getInstance" =>
    IF last.pre = NoBucket
      THEN /\ last.post.id # 0
           /\ last.post.capacity = last.args[1] /\ last.post.fillRate = last.args[2]
           /\ last.post.tokens = last.args[1] * Unit
      ELSE last.post = last.pre
C15_SameBucket ==
  \A k \in Keys :
    /\ instances[k] # NoBucket =>
         /\ instances'[k].id = instances[k].id
         /\ instances'[k].capacity = instances[k].capacity
         /\ instances'[k].fillRate = instances[k].fillRate
    /\ k # last'.key => instances'[k] = instances[k]
C15_OneBucketPerKey == []C15_FirstCall /\ [][C15_SameBucket]_vars

(* a later getInstance with other arguments, and another key's bucket      *)
C15_Witness ==
  /\ last.op = "getInstance" /\ last.pre # NoBucket
  /\ last.args[1] # last.pre.capacity /\ last.pre.tokens < last.pre.capacity * Unit
  /\ \E k \in Keys : k # last.key /\ instances[k] # NoBucket

----------------------------------------------------------------------------
(* Properties of the request guard.                                        *)

(* C16: in the connect handler a request whose Origin is not in the        *)
(* allow-list (a request without Origin included) or whose content type    *)
(* is not an allowed media type is rejected before its body is read, and   *)
(* no session is issued for it.                                            *)
C16_GuardBeforeBody ==
  (resp.route = "connect"
   /\ (~validateOrigin(resp.reqOrigin, nodeEnv)
       \/ resp.contentType = NoVal \/ ~IncludesJson(resp.contentType)))
    => (~resp.bodyRead /\ ~resp.issued /\ resp.status \in {400, 403})

(* a session issued in production on a request that has no Origin header   *)
C16_Witness ==
  /\ nodeEnv = "production" /\ resp.route = "connect" /\ resp.reqOrigin = NoVal
  /\ resp.bodyRead /\ resp.issued /\ cookie.kind = "jwt"

(* C17: validateOrigin(origin) is true exactly when origin equals one of   *)
(* the configured allowed origins; an origin that contains one, is         *)
(* contained in one or shares a prefix or suffix with one is rejected,     *)
(* and so is a null origin.                                                *)
C17_ExactOriginMatch ==
  resp.route = "validateOrigin" =>
    /\ resp.isValid <=>
         \/ resp.reqOrigin \in {"https://app.example", "https://www.app.example"}
         \/ resp.reqOrigin = "http://localhost:3000" /\ nodeEnv = "development"
    /\ resp.reqOrigin \in {NoVal, "", "https://app.example.evil.example",
                            "https://evil.example/https://app.example",
                            "app.example", "https://app.exampl",
                            "HTTPS://APP.EXAMPLE"} => ~resp.isValid

(* an origin that starts with an allowed origin, rejected                  *)
C17_Witness ==
  /\ resp.route = "validateOrigin" /\ ~resp.isValid
  /\ resp.reqOrigin = "https://app.example.evil.example"

----------------------------------------------------------------------------
(* Properties of the payload reconstruction.  In these, the call is the    *)
(* verifier applied to `proof`, a CIP-8 proof with a well-formed envelope, *)
(* in a production build (where a failed library import returns false).    *)
Verifiers == {"validateWalletConnection", "validateWalletConnection_lib"}
Cip8Call ==
  /\ resp.route \in Verifiers
  /\ nodeEnv = "production"
  /\ proof.present /\ proof.sign.present /\ ~Falsy(proof.hash)
  /\ proof.tx.form = "missing"
  /\ LowerName(proof.dataName) # "eturnall"
  /\ ~Malformed(proof)
  /\ proof.sign.signature.unprot = "map"
  /\ proof.sign.key = KeyEnvelope("map", 1, 6, "k1", 32)
Payload == proof.sign.signature.payload
HashBytes == HexBytes(proof.hash)
Message == Utf8(HashBytes)

(* C18: when the envelope's payload is null or empty the bytes covered by  *)
(* the signature check hold the caller-supplied hash bytes unchanged; when *)
(* the payload is present and not empty it must equal the hash bytes,      *)
(* otherwise verification fails without a signature check.                 *)
C18_PayloadResolution ==
  Cip8Call =>
    /\ (Payload \in {PNull, ""} /\ resp.checked) => resp.bytes[4] = HashBytes
    /\ (Payload \notin {PNull, ""} /\ Payload # HashBytes)
         => (~resp.checked /\ ~resp.isValid)

(* a null payload with the hashed flag set: the signature check covers the *)
(* 28-byte digest of the message and not the hash bytes                    *)
C18_Witness ==
  /\ Cip8Call /\ resp.route = "validateWalletConnection" /\ nodeEnv = "production"
  /\ Payload = PNull /\ proof.hash = "6869" /\ proof.sign.signature.hashed = "true"
  /\ resp.checked /\ resp.sigok /\ resp.isValid
  /\ resp.bytes[4] = "b2b0hi"

(* C19: the hashed flag is true only when the unprotected headers hold the *)
(* boolean true under 'hashed'; when the key is absent or holds another    *)
(* value the raw-message branch is used: a null or empty payload is        *)
(* rebuilt from the bytes of the message itself, not from its digest.      *)
C19_HashedOnlyWhenTrue ==
  (Cip8Call /\ resp.route = "validateWalletConnection" /\ Message # ""
   /\ proof.sign.signature.hashed # "true")
    => ((Payload \in {PNull, ""} /\ resp.checked)
          => resp.bytes[4] = Utf8Bytes(Message))

(* the number 1 under 'hashed': the hashed branch is taken                 *)
C19_Witness ==
  /\ Cip8Call /\ resp.route = "validateWalletConnection" /\ nodeEnv = "production"
  /\ proof.sign.signature.hashed = "one" /\ Payload = PNull /\ proof.hash = "6869"
  /\ resp.checked /\ resp.bytes[4] = blake2bHex("hi")

(* C20: whenever the message-equality check fails (hashed not set and a    *)
(* present payload whose UTF-8 decoding differs from the claimed message,  *)
(* or hashed set and a present payload that differs from the claimed hash  *)
(* and from the digest of the message), verification returns false and no  *)
(* signature check runs, for every claimed message, the empty one          *)
(* included.                                                               *)
EqualityFails ==
  /\ Payload # PNull
  /\ \/ proof.sign.signature.hashed \in {"absent", "false"}
        /\ Utf8(Payload) # Message
     \/ proof.sign.signature.hashed = "true"
        /\ Payload \notin {proof.hash, HashBytes, Message, blake2bHex(Message)}
C20_EqualityGatesSignature ==
  (Cip8Call /\ resp.route = "validateWalletConnection" /\ EqualityFails)
    => (~resp.isValid /\ ~resp.checked)

(* an empty claimed message and a payload 'hi' signed by the key: accepted *)
C20_Witness ==
  /\ Cip8Call /\ resp.route = "validateWalletConnection" /\ nodeEnv = "production"
  /\ Message = "" /\ Payload = "6869" /\ proof.sign.signature.hashed = "absent"
  /\ resp.checked /\ resp.sigok /\ resp.isValid

----------------------------------------------------------------------------
(* Properties of the key validation and of the signed bytes.               *)
(* A CIP-8 proof with a well-formed signature envelope and a key envelope  *)
(* that decodes to a map, verified in a production build.                  *)
KeyCall ==
  /\ resp.route \in Verifiers
  /\ nodeEnv = "production"
  /\ proof.present /\ proof.sign.present /\ ~Falsy(proof.hash)
  /\ proof.tx.form = "missing"
  /\ ~Malformed(proof)
  /\ proof.sign.signature.unprot = "map"
  /\ proof.sign.key.form = "map"
Key == proof.sign.key
UnsupportedKey ==
  Key.kty # 1 \/ Key.crv # 6 \/ Key.x = NoVal \/ Key.xlen # 32

(* C21: verification returns false, and no signature check is invoked,     *)
(* whenever the key envelope's key type is not 1, its curve is not 6, or   *)
(* its X coordinate is absent or not exactly 32 bytes long, even when the  *)
(* signature verifies against the supplied key bytes.                      *)
C21_UnsupportedKeyRejected ==
  (KeyCall /\ UnsupportedKey) => (~resp.isValid /\ ~resp.checked)

(* a key envelope of curve 1 whose 32 key bytes verify the signature       *)
C21_Witness ==
  /\ KeyCall /\ resp.route = "validateWalletConnection"
  /\ Key.kty = 1 /\ Key.crv = 1 /\ Key.x = "k1" /\ Key.xlen = 32
  /\ resp.checked /\ resp.sigok /\ resp.isValid

(* C22: the bytes given to the signature check are the encoding of the     *)
(* 4-tuple ("Signature1", the protected header bytes as received in the    *)
(* envelope, the empty byte string, the resolved payload), the resolved    *)
(* payload being the caller-supplied hash when the payload is omitted;     *)
(* neither the unprotected headers nor the signature field changes them.   *)
ResolvedPayload == IF Payload \in {PNull, ""} THEN HashBytes ELSE Payload
C22_SignedBytes ==
  (KeyCall /\ resp.checked)
    => resp.bytes = SigStructure(proof.sign.signature.prot, ResolvedPayload)

(* hashed = true with the payload omitted: the bytes checked, and signed   *)
(* by the wallet, hold the digest of the decoded hash and not the hash     *)
C22_Witness ==
  /\ KeyCall /\ resp.route = "validateWalletConnection"
  /\ proof.sign.signature.hashed = "true" /\ Payload = PNull
  /\ Message # ""
  /\ resp.checked /\ resp.isValid
  /\ resp.bytes = SigStructure("a10127", blake2bHex(Message))
  /\ proof.sign.signature.signature.over = resp.bytes
  /\ resp.bytes # SigStructure(proof.sign.signature.prot, HashBytes)

(* The structure each verifier reconstructs for an omitted payload with    *)
(* hashed = true (unnamed/part_006:225-290, signature-verifier.ts:267-271) *)
Reconstructed ==
  IF resp.route = "validateWalletConnection_lib"
  THEN SigStructure(proof.sign.signature.prot, HashBytes)
  ELSE SigStructure(ProtReencoded(proof.sign.signature.prot), blake2bHex(Message))
SignatureValid ==
  ed25519Verify(Reconstructed, proof.sign.signature.signature, Key.x)
(* message.includes("Invalid signature"), over the messages of the model   *)
IncludesInvalidSignature(m) == m = "Invalid signature"

(* C23: for a connection claim with hashed = true, an empty payload, and a *)
(* matching 32-byte public key, validateWalletConnection (its libraries    *)
(* loaded) returns                                                         *)
(* isValid = true when the signature is valid over the reconstructed       *)
(* structure, and isValid = false with a message containing                *)
(* "Invalid signature" when the signature is altered.                      *)
C23_ValidAcceptedAlteredRejected ==
  (KeyCall /\ ~UnsupportedKey /\ Message # "" /\ resp.deps
   /\ proof.sign.signature.hashed = "true" /\ Payload \in {PNull, ""})
    => /\ SignatureValid => resp.isValid
       /\ ~SignatureValid
            => (~resp.isValid /\ IncludesInvalidSignature(resp.message))

(* an altered signature refused by the verifier the routes import          *)
C23_Witness ==
  /\ KeyCall /\ ~UnsupportedKey /\ resp.route = "validateWalletConnection"
  /\ resp.deps /\ proof.hash = "6869"
  /\ proof.sign.signature.hashed = "true" /\ Payload = PNull
  /\ ~SignatureValid /\ resp.checked /\ ~resp.isValid
  /\ resp.message = "Invalid CIP-8 signature"

----------------------------------------------------------------------------
(* Properties of the session checks' failure results.                      *)
Expired(tk, t) == tk.exp # NoNum /\ tk.exp <= t
BadSignature(tk, secret) == tk.key # secret
(* the reasons for which auth.ts refuses a JWT, and those of the session   *)
(* route's own check, which accepts every HMAC algorithm                   *)
RefusedByAuth(tk, t) ==
  tk.kind = "jwt"
  /\ (Expired(tk, t) \/ BadSignature(tk, JWT_SECRET) \/ tk.alg # "HS256")
RefusedByRoute(tk, t) ==
  tk.kind = "jwt" /\ (Expired(tk, t) \/ BadSignature(tk, "env"))

(* C24: a token refused because it is expired and a token refused because  *)
(* its signature or algorithm is wrong get the same returned value from    *)
(* each session check: validateSession answers false, getSessionData null, *)
(* the session route's check isValid = false with no payload.              *)
C24_SingleInvalidOutcome ==
  /\ (call.op \in {"validateSession", "getSessionData"}
      /\ RefusedByAuth(call.arg, now))
       => (~call.ok /\ call.out = NoToken)
  /\ (call.op = "validateSessionToken" /\ RefusedByRoute(call.arg, now))
       => (~call.ok /\ call.out = NoToken)

(* a token of the server's own key and algorithm, refused once expired     *)
C24_Witness ==
  /\ call.op = "getSessionData" /\ call.arg.kind = "jwt"
  /\ call.arg.key = JWT_SECRET /\ call.arg.alg = "HS256"
  /\ ~Falsy(call.arg.address)
  /\ Expired(call.arg, now)
  /\ ~call.ok /\ call.out = NoToken

----------------------------------------------------------------------------
(* Properties of the session cookie.                                       *)

(* C25: every wallet_session cookie the server sets for a live session, on *)
(* connect and on a later session request, has the signed session token as *)
(* value, max-age equal to the session lifetime of 7200 s, HttpOnly,       *)
(* Secure, SameSite=Strict and path "/"; its max-age does not exceed the   *)
(* lifetime of the token it carries.                                       *)
C25_SessionCookie ==
  (resp.route \in {"connect", "session"} /\ resp.setCookie # NoOptions)
    => /\ cookie.kind = "jwt" /\ cookie.key = JWT_SECRET
       /\ resp.setCookie = CookieOptions(TRUE, TRUE, "strict", JWT_EXPIRATION, "/")
       /\ resp.setCookie.maxAge <= cookie.exp - cookie.iat

(* a connect answered with an unsigned cookie that lives for seven days    *)
C25_Witness ==
  /\ resp.route = "connect" /\ resp.status = 200 /\ nodeEnv = "production"
  /\ cookie.kind = "json"
  /\ resp.setCookie.maxAge = 84 * JWT_EXPIRATION
  /\ resp.setCookie.httpOnly /\ resp.setCookie.secure

----------------------------------------------------------------------------
(* The CSRF primitive driven by its callers.                               *)
(* Token strings: the hex text generateCsrfToken returns (auth.ts:151-153),*)
(* the same in upper case, hex of odd length, texts in the form of the     *)
(* crypto.randomUUID() value the connect handler sets as csrf_token        *)
(* (unnamed/part_001:139), texts without hex digits, the empty string.     *)
CsrfInputs ==
  {<<"a", "b", "c", "d">>, <<"a", "b", "c", "e">>, <<"A", "B", "C", "D">>,
   <<"a", "b">>, <<"a", "b", "c">>, <<"a", "b", "d">>,
   <<"a", "b", "-", "1", "2">>, <<"a", "b", "-", "3", "4">>,
   <<"c", "d", "-", "1", "2">>,
   <<"x", "y">>, <<"z", "z">>, <<>>}

(* The server keeps a token for the session. *)
StoreCsrf(s) ==
  /\ csrf' = [NoCsrf EXCEPT !.op = "store", !.stored = s]
  /\ UNCHANGED CsrfFrame

(* validateCsrfToken(p, stored) *)
ValidateCsrf(p) ==
  /\ csrf.op # "none"
  /\ LET r == validateCsrfToken(p, csrf.stored) IN
       csrf' = [op |-> "validateCsrfToken", stored |-> csrf.stored, provided |-> p,
                ok |-> r.ok, threw |-> r.threw]
  /\ UNCHANGED CsrfFrame

InitCsrf == InitRate
NextCsrf ==
  \/ \E s \in CsrfInputs : StoreCsrf(s)
  \/ \E p \in CsrfInputs : ValidateCsrf(p)
SpecCsrf == InitCsrf /\ [][NextCsrf]_vars

(* C26: validateCsrfToken(provided, stored) returns true if and only if    *)
(* provided and stored are the same token, and returns false without       *)
(* throwing for every other pair of strings, those of different lengths    *)
(* and those that are no hex text included.                                *)
C26_CsrfCompare ==
  (csrf.op = "validateCsrfToken")
    => (~csrf.threw /\ (csrf.ok <=> csrf.provided = csrf.stored))

(* two different tokens of the UUID form that compare as equal             *)
C26_Witness ==
  /\ csrf.op = "validateCsrfToken"
  /\ csrf.stored = <<"a", "b", "-", "1", "2">>
  /\ csrf.provided = <<"a", "b", "-", "3", "4">>
  /\ csrf.ok

----------------------------------------------------------------------------
(* Properties of the signing key.                                          *)
SessionChecks == {"validateSession", "getSessionData", "validateSessionToken"}
(* the token held was returned by createSecureSessionToken for a wallet    *)
(* address and has not expired                                             *)
LiveIssued ==
  /\ origin.how \in {"issued", "refreshed"}
  /\ tok.kind = "jwt" /\ ~Falsy(tok.address)
  /\ now < tok.exp

(* C27: one signing key serves the whole process: every token returned by  *)
(* createSecureSessionToken is accepted, until its expiry, by every        *)
(* session check (validateSession, getSessionData, the session route's     *)
(* check), whether or not the JWT_SECRET environment secret is configured. *)
C27_OneSigningKey ==
  (call.op \in SessionChecks /\ call.arg = tok /\ LiveIssued) => call.ok

(* without JWT_SECRET the session route refuses a token just issued        *)
C27_Witness ==
  /\ ~envSecret /\ LiveIssued /\ origin.at = now
  /\ call.op = "validateSessionToken" /\ call.arg = tok
  /\ ~call.ok

----------------------------------------------------------------------------
(* The client provider in the browser, providers/walletProvider.tsx.       *)

(* The cookie the browser sends, as the deployed session route sees it.    *)
JarToken(jar, handler, t) ==
  IF jar = "none" THEN NoToken
  ELSE IF handler = "part_003"
    THEN Token("addr1", 1, "eternl", 1, t, t,
               IF jar = "valid" THEN t + JWT_EXPIRATION ELSE t, "HS256", "env")
  ELSE IF jar = "valid"
    THEN [NoToken EXCEPT !.kind = "json", !.address = "addr1", !.verified = TRUE]
  ELSE [NoToken EXCEPT !.kind = "garbage"]

(* GET /api/wallet/session as answered by the deployed handler *)
SessionAnswer(w) ==
  IF w.handler = "part_003"
  THEN GET(JarToken(w.jar, w.handler, now), envSecret, now)
  ELSE LET o == GET_json(JarToken(w.jar, w.handler, now), nodeEnv) IN
       [status |-> o.status, hasSession |-> o.hasSession]

(* verifySession, walletProvider.tsx:290-321, from the answer on.  how is  *)
(* "handler" (the route answers), "error500" (it answers 500) or           *)
(* "network" (fetch rejects).  Every status but 401 connects.              *)
VerifySession(how) ==
  /\ client.stage = "verifying"
  /\ LET o == SessionAnswer(client)
         status == IF how = "error500" THEN 500 ELSE o.status
     IN
     client' =
       IF how = "network"
         THEN [client EXCEPT !.saved = FALSE, !.stage = "idle", !.said = "error"]
       ELSE IF status = 401
         THEN [client EXCEPT !.sessionExpired = TRUE, !.isConnected = FALSE,
                             !.stage = "idle", !.said = "nosession"]
       ELSE [client EXCEPT !.isConnected = TRUE, !.stage = "idle",
                           !.said = IF status = 500 THEN "error"
                                    ELSE IF o.hasSession THEN "session"
                                    ELSE "nosession"]
  /\ UNCHANGED WalletFrame

(* handleWalletResponse, walletProvider.tsx:324-375, up to the POST: a      *)
(* result that decodes to connect data marks the wallet connected, saves   *)
(* it and sends the POST; any other result ends in the catch at 420-425.   *)
HandleWalletResponse(decodes) ==
  /\ client.stage = "idle"
  /\ client' =
       IF decodes
         THEN [client EXCEPT !.sessionExpired = FALSE, !.isConnected = TRUE,
                             !.saved = TRUE, !.stage = "posting", !.said = "none"]
       ELSE [client EXCEPT !.sessionExpired = FALSE, !.isConnecting = FALSE,
                           !.stage = "leaving"]
  /\ UNCHANGED WalletFrame

(* walletProvider.tsx:383-419: the answer to the POST.  Accepted, rejected *)
(* or failed, the page navigates to returnUrl; an accepting answer has set *)
(* the session cookie.                                                     *)
ConnectAnswers == {"accepted", "rejected", "error"}
ConnectAnswer(a) ==
  /\ client.stage = "posting"
  /\ client' = [client EXCEPT !.stage = "leaving", !.said = a,
                              !.isModalOpen = FALSE, !.isConnecting = FALSE,
                              !.jar = IF a = "accepted" THEN "valid" ELSE @]
  /\ UNCHANGED WalletFrame

(* connect, walletProvider.tsx:494-531: the user asks for a connection;    *)
(* after an expired session the saved connection is dropped first.         *)
ConnectWallet ==
  /\ client.stage = "idle"
  /\ ~client.isModalOpen
  /\ client' = [client EXCEPT !.isConnecting = TRUE, !.isModalOpen = TRUE,
                              !.saved = IF client.sessionExpired THEN FALSE ELSE @]
  /\ UNCHANGED WalletFrame

(* closeModal, walletProvider.tsx:583-590 *)
CloseModal ==
  /\ client.stage = "idle"
  /\ client.isModalOpen
  /\ client' = [client EXCEPT !.isModalOpen = FALSE, !.isConnecting = FALSE]
  /\ UNCHANGED WalletFrame

(* The page loads: the provider is rendered anew and verifySession runs    *)
(* when localStorage holds a connection (walletProvider.tsx:203-211, 291). *)
PageLoad ==
  /\ client.stage = "leaving"
  /\ client' = Wallet0(client.saved, client.jar, client.handler)
  /\ UNCHANGED WalletFrame

(* disconnect, walletProvider.tsx:558-581, with the cookie cleared by      *)
(* api/wallet/disconnect/route.ts:29-35 and the reload that follows.       *)
Disconnect ==
  /\ client.stage = "idle"
  /\ client' = [client EXCEPT !.isConnected = FALSE, !.sessionExpired = FALSE,
                              !.saved = FALSE, !.jar = "none", !.stage = "leaving",
                              !.said = "none"]
  /\ UNCHANGED WalletFrame

(* The session behind the cookie ends on the server, or the browser drops  *)
(* the cookie at its max-age.                                              *)
CookieEnds(j) ==
  /\ client.stage = "idle"
  /\ client.jar = "valid"
  /\ client' = [client EXCEPT !.jar = j]
  /\ UNCHANGED WalletFrame

InitWallet ==
  /\ now = 1000
  /\ ticks = 0
  /\ envSecret = TRUE
  /\ nodeEnv = "production"
  /\ nextId = 0
  /\ tok = NoToken
  /\ origin = NoOrigin
  /\ call = NoCall
  /\ cookie = NoToken
  /\ resp = NoResp
  /\ proof = NoConnData
  /\ RateIdle
  /\ csrf = NoCsrf
  /\ manager = Manager0
  /\ delivery = Delivery0(TRUE, TRUE)
  /\ client \in {Wallet0(sv, j, h) : sv \in BOOLEAN, j \in {"none", "valid", "stale"},
                                     h \in {"part_003", "route.ts"}}

NextWallet ==
  \/ \E how \in {"handler", "error500", "network"} : VerifySession(how)
  \/ \E d \in BOOLEAN : HandleWalletResponse(d)
  \/ \E a \in ConnectAnswers : ConnectAnswer(a)
  \/ ConnectWallet
  \/ CloseModal
  \/ PageLoad
  \/ Disconnect
  \/ \E j \in {"none", "stale"} : CookieEnds(j)

SpecWallet == InitWallet /\ [][NextWallet]_vars

(* C28: isConnected is true only after the server has accepted the         *)
(* connection or confirmed an existing valid session; after a connect that *)
(* the server rejects, or a session check that reports no valid session,   *)
(* isConnected is not true.                                                *)
C28_ConnectedOnlyWhenConfirmed ==
  /\ client.isConnected => client.said \in {"accepted", "session"}
  /\ client.said \in {"rejected", "nosession"} => ~client.isConnected

(* the server has rejected the connect and the wallet shows as connected   *)
C28_Witness ==
  /\ client.said = "rejected" /\ client.stage = "leaving"
  /\ client.isConnected /\ client.saved /\ client.jar = "none"

-----------------------------------------------------------------------------
(* The balance manager (lib/balance-manager.ts).  A fetch is numbered in   *)
(* the order fetchBalance was called, and the balance it yields is written *)
(* as its own number, so that two fetches never yield the same value.      *)
CACHE_TTL == 30000
MaxFetches == 2
MaxCalls == 3
MaxBalanceTicks == 2

(* the fetches for an address that have been started and have not settled  *)
InFlight(m, address) ==
  {f \in 1..Len(m.fetches) :
     m.fetches[f].address = address /\ m.fetches[f].state = "flight"}

(* getBalance up to its first await: the cache test, the pending test, or  *)
(* fetchBalance() and pendingRequests.set().                               *)
getBalance(m, address, forceRefresh, t) ==
  LET cached == m.balanceCache[address]
      id == Len(m.fetches) + 1
      ask(how, f, st, res) ==
        [address |-> address, forceRefresh |-> forceRefresh, now |-> t,
         how |-> how, fetch |-> f, flying |-> InFlight(m, address),
         state |-> st, result |-> res]
  IN  IF ~forceRefresh /\ cached.has /\ (t - cached.timestamp) < CACHE_TTL
      THEN [m EXCEPT !.calls = Append(@, ask("cache", 0, "returned", cached.balance))]
      ELSE IF m.pendingRequests[address] # 0
      THEN [m EXCEPT !.calls = Append(@, ask("joined", m.pendingRequests[address],
                                             "pending", 0))]
      ELSE [m EXCEPT !.fetches = Append(@, [address |-> address, state |-> "flight"]),
                     !.pendingRequests[address] = id,
                     !.calls = Append(@, ask("started", id, "pending", 0))]

(* the fetch f settles: the call that started it resumes after its await   *)
(* (cache written on success only, the entry of the address deleted in the *)
(* finally), and every call waiting on the same promise gets its outcome.  *)
settle(m, f, ok) ==
  LET address == m.fetches[f].address
      owner == CHOOSE i \in 1..Len(m.calls) :
                 m.calls[i].how = "started" /\ m.calls[i].fetch = f
      done(c) == IF c.fetch = f /\ c.state = "pending"
                 THEN [c EXCEPT !.state = IF ok THEN "returned" ELSE "threw",
                                !.result = IF ok THEN f ELSE 0]
                 ELSE c
  IN  [m EXCEPT !.fetches[f].state = IF ok THEN "ok" ELSE "failed",
                !.calls = [i \in 1..Len(m.calls) |-> done(m.calls[i])],
                !.balanceCache[address] =
                   IF ok THEN [has |-> TRUE, balance |-> f,
                               timestamp |-> m.calls[owner].now]
                         ELSE @,
                !.pendingRequests[address] = 0]

(* clearCache(address?): "" stands for a call without an address           *)
clearCache(m, address) ==
  IF address # ""
  THEN [m EXCEPT !.balanceCache[address] = NoCached,
                 !.pendingRequests[address] = 0]
  ELSE [m EXCEPT !.balanceCache = [a \in Addrs |-> NoCached],
                 !.pendingRequests = [a \in Addrs |-> 0]]

isPending(m, address) == m.pendingRequests[address] # 0

GetBalance(address, forceRefresh) ==
  LET m == getBalance(manager, address, forceRefresh, dateNow)
  IN  /\ Len(manager.calls) < MaxCalls
      /\ Len(m.fetches) <= MaxFetches
      /\ manager' = m
      /\ UNCHANGED <<dateNow, BalanceFrame>>

FetchSettles(f, ok) ==
  /\ f \in 1..Len(manager.fetches)
  /\ manager.fetches[f].state = "flight"
  /\ manager' = settle(manager, f, ok)
  /\ UNCHANGED <<dateNow, BalanceFrame>>

ClearCache(address) ==
  /\ manager' = clearCache(manager, address)
  /\ manager' # manager
  /\ UNCHANGED <<dateNow, BalanceFrame>>

BalanceElapse ==
  /\ dateNow < MaxBalanceTicks * (CACHE_TTL \div 2)
  /\ dateNow' = dateNow + (CACHE_TTL \div 2)
  /\ UNCHANGED <<manager, BalanceFrame>>

InitBalance == InitRate
NextBalance ==
  \/ \E a \in Addrs, force \in BOOLEAN : GetBalance(a, force)
  \/ \E f \in 1..MaxFetches, ok \in BOOLEAN : FetchSettles(f, ok)
  \/ \E a \in Addrs \cup {""} : ClearCache(a)
  \/ BalanceElapse
SpecBalance == InitBalance /\ [][NextBalance]_vars

(* C29: for each address at most one balance fetch is in flight at any     *)
(* time; a getBalance issued while a fetch for its address is pending,     *)
(* and not served from the fresh cache, waits on that fetch and returns    *)
(* its result instead of starting another; and the pendingRequests entry   *)
(* of an address, when present, is the fetch in flight for that address.   *)
C29_SingleFlight ==
  /\ \A a \in Addrs : Cardinality(InFlight(manager, a)) <= 1
  /\ \A i \in 1..Len(manager.calls) :
       LET c == manager.calls[i]
       IN  c.flying # {} /\ c.how # "cache" =>
             /\ c.how = "joined"
             /\ c.fetch \in c.flying
             /\ c.state = "returned" => c.result = c.fetch
  /\ \A a \in Addrs :
       isPending(manager, a) => manager.pendingRequests[a] \in InFlight(manager, a)

(* a getBalance issued while a fetch for its address was in flight has     *)
(* started a second one, and both are in flight                            *)
C29_Witness ==
  \E i \in 1..Len(manager.calls) :
    LET c == manager.calls[i]
    IN  /\ c.how = "started"
        /\ c.flying # {}
        /\ Cardinality(InFlight(manager, c.address)) = 2

-----------------------------------------------------------------------------
(* Delivery of one wallet callback result.  The popup (WalletCallback)     *)
(* writes the localStorage item, posts a message to its opener and         *)
(* dispatches a custom event on the opener's document; the page            *)
(* (AppProviders) watches the item and re-sends the result to itself; the  *)
(* WalletProvider listens for the message and, on document and on window,  *)
(* for the custom event.  runs counts the calls of handleWalletResponse,   *)
(* posts the requests sent to /api/wallet/connect.                         *)

(* handleWalletResponse is called: it runs up to its first await           *)
handleWalletResponse(d) ==
  [d EXCEPT !.runs = @ + 1, !.awaiting = @ + 1]

(* a 'walletCallbackReceived' event dispatched on the page's document with *)
(* bubbles: true reaches handleCustomEvent (on document) and then          *)
(* handleCallbackEvent (on window), within the dispatch                    *)
dispatchEvent(d) ==
  IF d.page = "open" THEN handleWalletResponse(handleWalletResponse(d)) ELSE d

(* AppProviders.processCallback, entered with callbackProcessedRef false   *)
processCallback(d) ==
  dispatchEvent([d EXCEPT !.processed = TRUE, !.gc = @ + 1, !.timer = TRUE])

(* WalletCallback.handleClose: once on mount and once more on 'load'.  A   *)
(* storage event goes to the page only when the item's value changes.      *)
HandleClose ==
  /\ delivery.popup = "open"
  /\ delivery.closes < 2
  /\ LET d == [delivery EXCEPT !.closes = @ + 1, !.item = TRUE,
                               !.storage = IF delivery.item THEN @ ELSE @ + 1]
     IN  delivery' = IF d.opener THEN dispatchEvent([d EXCEPT !.object = @ + 1])
                                 ELSE d
  /\ UNCHANGED CallbackFrame

(* setTimeout(() => window.close(), 300 or 500)                            *)
PopupCloses ==
  /\ delivery.popup = "open"
  /\ delivery.closes > 0
  /\ delivery' = [delivery EXCEPT !.popup = "closed"]
  /\ UNCHANGED CallbackFrame

(* AppProviders.handleStorageChange, with e.newValue the result            *)
StorageChange ==
  /\ delivery.page = "open"
  /\ delivery.storage > 0
  /\ LET d == [delivery EXCEPT !.storage = @ - 1]
     IN  delivery' = IF ~d.processed THEN processCallback(d) ELSE d
  /\ UNCHANGED CallbackFrame

(* AppProviders.checkCallback, every second: a step when it finds the item *)
CheckCallback ==
  /\ delivery.page = "open"
  /\ delivery.item /\ ~delivery.processed
  /\ delivery' = processCallback(delivery)
  /\ UNCHANGED CallbackFrame

(* the setTimeout of processCallback, one second later                     *)
Timeout ==
  /\ delivery.page = "open"
  /\ delivery.timer
  /\ delivery' = [delivery EXCEPT !.item = FALSE, !.processed = FALSE, !.timer = FALSE]
  /\ UNCHANGED CallbackFrame

(* WalletProvider.handleMessage: the popup's {type: 'gc_wallet_callback'}  *)
(* object, or the page's own 'gc:' string                                  *)
HandleMessage(kind) ==
  /\ delivery.page = "open"
  /\ \/ /\ kind = "object"
        /\ delivery.object > 0
        /\ delivery' = handleWalletResponse([delivery EXCEPT !.object = @ - 1])
     \/ /\ kind = "gc"
        /\ delivery.gc > 0
        /\ delivery' = handleWalletResponse([delivery EXCEPT !.gc = @ - 1])
  /\ UNCHANGED CallbackFrame

(* one run of handleWalletResponse goes on after its awaits: it sends the  *)
(* POST, or throws (library not loaded, result not decodable) and leaves   *)
(* the page through the catch                                              *)
SendConnect ==
  /\ delivery.page = "open"
  /\ delivery.awaiting > 0
  /\ delivery' = IF delivery.good
                 THEN [delivery EXCEPT !.awaiting = @ - 1, !.posts = @ + 1]
                 ELSE [delivery EXCEPT !.awaiting = @ - 1, !.page = "left"]
  /\ UNCHANGED CallbackFrame

(* a POST is answered (or fails): every branch assigns window.location     *)
ConnectAnswered ==
  /\ delivery.page = "open"
  /\ delivery.posts > delivery.answered
  /\ delivery' = [delivery EXCEPT !.answered = @ + 1, !.page = "left"]
  /\ UNCHANGED CallbackFrame

InitCallback ==
  /\ now = 1000
  /\ ticks = 0
  /\ envSecret = TRUE
  /\ nodeEnv = "production"
  /\ nextId = 0
  /\ tok = NoToken
  /\ origin = NoOrigin
  /\ call = NoCall
  /\ cookie = NoToken
  /\ resp = NoResp
  /\ proof = NoConnData
  /\ RateIdle
  /\ csrf = NoCsrf
  /\ client = Wallet0(FALSE, "none", "part_003")
  /\ manager = Manager0
  /\ delivery \in {Delivery0(good, opener) : good \in BOOLEAN, opener \in BOOLEAN}

NextCallback ==
  \/ HandleClose
  \/ PopupCloses
  \/ StorageChange
  \/ CheckCallback
  \/ Timeout
  \/ \E kind \in {"object", "gc"} : HandleMessage(kind)
  \/ SendConnect
  \/ ConnectAnswered

SpecCallback == InitCallback /\ [][NextCallback]_vars

(* C30: one wallet callback result, delivered through the localStorage     *)
(* item, the posted message and the custom event, makes                    *)
(* handleWalletResponse run at most once and makes at most one POST to     *)
(* /api/wallet/connect be sent.                                            *)
C30_HandledOnce ==
  /\ delivery.runs <= 1
  /\ delivery.posts <= 1

(* the popup has delivered the result once, and the page has run           *)
(* handleWalletResponse more than once and sent more than one POST         *)
C30_Witness ==
  /\ delivery.closes = 1
  /\ delivery.runs > 1
  /\ delivery.posts > 1

====
